---- MODULE Spec2Model ----
(***************************************************************************)
(* IdeaField: the graph store (useIdeaStore), the force-layout hook        *)
(* (usePhysicsSimulation, a d3-force simulation driven by a React effect), *)
(* and the canvas / node / toolbar handlers that call them.                *)
(*                                                                         *)
(* Numbers.  World coordinates are small integers (XCoord, YCoord).  alpha is kept  *)
(* in fixed point, in units of 1e-9: alpha.start = 1 is 1000000000,        *)
(* alpha.min = 0.001 is 1000000 and alpha.decay = 0.02 is 2 percent.       *)
(*                                                                         *)
(* Scheduling.  Everything runs on one JavaScript thread.  A store `set`   *)
(* (zustand, read by IdeaCanvas without a selector) schedules a            *)
(* synchronous re-render of IdeaCanvas; React commits that render and runs *)
(* its effects before the next timer or pointer event is delivered.  The   *)
(* flag renderPending stands for "a render is scheduled": while it is set  *)
(* the only step is RenderCommit.  The physics effect re-runs on every     *)
(* IdeaCanvas render, because its dependency onNodeUpdate is an inline     *)
(* arrow function and so a new value each render.                          *)
(***************************************************************************)
EXTENDS Integers, Sequences, FiniteSets, TLC

\* ------------------------------------------------------------- bounds
\* ids ever handed out by generateId to nodes
MaxNodes == 2
\* world x coordinates are 0..MaxX, world y coordinates are 0..MaxY
MaxX == 1
MaxY == 0
\* a velocity is -MaxSpeedX..MaxSpeedX along x and -MaxSpeedY..MaxSpeedY along y
MaxSpeedX == 1
MaxSpeedY == 0
\* ticks taken after alpha was last set to alpha.start (specification Spec)
MaxTicks == 2
\* edges added through the store's addEdge directly (specification SpecEdges)
MaxEdges == 2
\* camera operations (pan, zoom, resetCamera) in one behaviour
MaxCameraOps == 2
\* how far, per axis, the pointer goes from where it was pressed, and the
\* largest node coordinate a drag reaches (pixels)
MaxDragOffset == 4

\* -------------------------------------------------- program constants
\* PHYSICS_CONFIG.alpha.start = 1
AlphaStart == 1000000000
\* PHYSICS_CONFIG.alpha.min = 0.001
AlphaMin == 1000000
\* PHYSICS_CONFIG.alpha.decay = 0.02, in percent
AlphaDecayPct == 2
\* radius of the root node (initializeWithRoot)
RootRadius == 45
\* radius of a node made by the spawn gesture (IdeaCanvas.handleMouseUp)
SpawnRadius == 30
\* `null` of selectedNodeId / parentId / sourceNodeId (node ids are 1, 2, ...)
NoId == 0
\* `null` of fx / fy (coordinates are >= 0)
Null == -1
\* the JavaScript numbers NaN and Infinity as coordinate values
NaN == -2
Infinity == -3

Ids == 1..MaxNodes
XCoord == 0..MaxX
YCoord == 0..MaxY
VelX == (0 - MaxSpeedX)..MaxSpeedX
VelY == (0 - MaxSpeedY)..MaxSpeedY
NodeStatus == {"seed", "sprout", "flowering", "fruit"}
\* Toolbar.handleAddTestNode: radius = 30 + Math.random() * 20
TestRadii == {40}
\* usePhysicsSimulation({... enabled: true})
enabled == TRUE
\* canvasWidth / 2, canvasHeight / 2 in world coordinates
CenterX == MaxX \div 2
CenterY == MaxY \div 2

VARIABLES
    \* useIdeaStore
    nodes,            \* IdeaNode[]: sequence of [id, x, y, status, radius, parentId]
    edges,            \* IdeaEdge[]: sequence of [sourceId, targetId, type]
    selectedNodeId,
    dragSpawn,        \* [isDragging, sourceNodeId, startX, startY, currentX, currentY]
    camera,           \* [scale, offsetX, offsetY], each a rational <<num, den>>
    nextId,           \* ids already handed out by generateId, plus one
    rootTimer,        \* the setTimeout(initializeWithRoot, 100) has not fired yet
    \* usePhysicsSimulation
    simulationRef,    \* simulationRef.current is not null
    physHeap,         \* the PhysicsNode objects, by id: [x, y, vx, vy, radius, fx, fy]
    nodesRef,         \* keys of the nodesRef.current map (values are physHeap objects)
    simNodes,         \* simulation.nodes(): ids of the objects the forces act on
    tickNodes,        \* the physicsNodes array captured by the 'tick' handler
    links,            \* forceLink's links: sequence of [source, target]
    alpha,
    timerOn,          \* d3's stepper timer is scheduling ticks
    isRunningRef,
    \* React / Konva
    renderPending,    \* a re-render of IdeaCanvas is scheduled
    isDragging,       \* ids of the node components whose isDragging state is true
    lastPosition,     \* lastPosition.current of each mounted node component
    pressedNode,      \* node under the held left button (Konva drag candidate)
    konvaDragging,    \* Konva has started the drag (a dragmove was delivered)
    isPanning,        \* IdeaCanvas state
    isSpacePressed,   \* IdeaCanvas state
    isHoveringEdge,   \* ids of the node components whose isHoveringEdge is true
    pointer,          \* where the pointer is: [node, d], d its distance from the
                      \* centre of that node; node is NoId far from every node
    button,           \* the mouse button held down, Null when none is
    downTarget,       \* the node whose shape took the mousedown, NoId for the Stage
    \* Konva drag and drop
    dragOrigin,       \* [id, x, y]: the Group pressed last and its position then
    pointerOffset,    \* <<dx, dy>>: how far the pointer is from where it was pressed
    gestureMove,      \* <<x, y>>: the world point of the last pointer move of the
                      \* spawn gesture begun by the last mousedown, <<>> when none
    \* history
    lastOp,           \* the operation that produced this state
    emitted,          \* onNodeUpdate calls made by the last tick: [id, x, y];
                      \* after endDragSpawn, the result it returned
    ticksSinceHeat,   \* ticks since alpha was last set to alpha.start
    paused,           \* pause() was called and resume() was not called since
    cameraOps,        \* camera operations performed so far
    reheats           \* reheat() calls made by the operation that produced this state

storeVars == <<nodes, edges, selectedNodeId, dragSpawn, camera, nextId, rootTimer>>
physVars == <<simulationRef, physHeap, nodesRef, simNodes, tickNodes, links,
              alpha, timerOn, isRunningRef, ticksSinceHeat>>
uiVars == <<isDragging, lastPosition, pressedNode, konvaDragging>>
konvaDragVars == <<dragOrigin, pointerOffset, gestureMove>>
canvasVars == <<isPanning, isSpacePressed, isHoveringEdge, pointer, button, downTarget>>
vars == <<storeVars, physVars, uiVars, canvasVars, konvaDragVars, renderPending,
          lastOp, emitted, paused, cameraOps, reheats>>

\* ------------------------------------------------------------ helpers
Range(s) == {s[i] : i \in 1..Len(s)}
NodeIds(ns) == [i \in 1..Len(ns) |-> ns[i].id]
NodeIdSet(ns) == {ns[i].id : i \in 1..Len(ns)}
NodeById(ns, id) == ns[CHOOSE i \in 1..Len(ns) : ns[i].id = id]
Restrict(f, S) == [i \in S |-> f[i]]

\* ------------------------------------------------------- useIdeaStore
\* addNode: append a node with a fresh id
addNode(ns, id, x, y, status, radius, parentId) ==
    Append(ns, [id |-> id, x |-> x, y |-> y, status |-> status,
                radius |-> radius, parentId |-> parentId])

\* updateNode(id, {x, y})
updateNodePos(ns, id, x, y) ==
    [i \in 1..Len(ns) |->
        IF ns[i].id = id THEN [ns[i] EXCEPT !.x = x, !.y = y] ELSE ns[i]]

\* updateNode(id, {status})
updateNodeStatus(ns, id, status) ==
    [i \in 1..Len(ns) |->
        IF ns[i].id = id THEN [ns[i] EXCEPT !.status = status] ELSE ns[i]]

\* removeNode: the node, its edges, and the selection when it was selected
removeNodeNodes(ns, id) == SelectSeq(ns, LAMBDA n : n.id # id)
\* mutant of removeNodeEdges: only the edges leaving the node go
removeNodeEdgesSourceOnly(es, id) == SelectSeq(es, LAMBDA e : e.sourceId # id)

removeNodeEdges(es, id) ==
    SelectSeq(es, LAMBDA e : e.sourceId # id /\ e.targetId # id)
\* mutant of removeNodeSelected: the selection is left alone
removeNodeSelectedKept(sel, id) == sel

removeNodeSelected(sel, id) == IF sel = id THEN NoId ELSE sel

\* addEdge: append an edge
\* mutant of addEdge: the two ends are exchanged
addEdgeReversed(es, sourceId, targetId) ==
    Append(es, [sourceId |-> targetId, targetId |-> sourceId, type |-> "derive"])

\* addEdge; every caller passes EdgeType.DERIVE, which is the default too
addEdge(es, sourceId, targetId) ==
    Append(es, [sourceId |-> sourceId, targetId |-> targetId, type |-> "derive"])

\* the dragSpawn of the initial state, of endDragSpawn and of cancelDragSpawn
NoDragSpawn ==
    [isDragging |-> FALSE, sourceNodeId |-> NoId, startX |-> 0, startY |-> 0,
     currentX |-> 0, currentY |-> 0]

\* startDragSpawn(sourceNodeId, startX, startY)
startDragSpawn(sourceNodeId, startX, startY) ==
    [isDragging |-> TRUE, sourceNodeId |-> sourceNodeId,
     startX |-> startX, startY |-> startY,
     currentX |-> startX, currentY |-> startY]

\* mutant of updateDragSpawn: the other fields are not carried over
updateDragSpawnAlone(ds, currentX, currentY) ==
    [NoDragSpawn EXCEPT !.isDragging = ds.isDragging,
                        !.currentX = currentX, !.currentY = currentY]

\* updateDragSpawn(currentX, currentY)
updateDragSpawn(ds, currentX, currentY) ==
    [ds EXCEPT !.currentX = currentX, !.currentY = currentY]

\* mutant of endDragSpawnResult: a result whatever the state
endDragSpawnResultUnguarded(ds) ==
    <<[x |-> ds.currentX, y |-> ds.currentY, sourceNodeId |-> ds.sourceNodeId]>>

\* what endDragSpawn returns: <<>> for null, else the result in a sequence
endDragSpawnResult(ds) ==
    IF ~ds.isDragging \/ ds.sourceNodeId = NoId
    THEN <<>>
    ELSE <<[x |-> ds.currentX, y |-> ds.currentY, sourceNodeId |-> ds.sourceNodeId]>>

\* mutant of endDragSpawn: the gesture is only flagged inactive
endDragSpawnFlagOnly(ds) ==
    IF endDragSpawnResult(ds) = <<>> THEN ds ELSE [ds EXCEPT !.isDragging = FALSE]

\* the dragSpawn state endDragSpawn leaves
endDragSpawn(ds) ==
    IF endDragSpawnResult(ds) = <<>> THEN ds ELSE NoDragSpawn

\* the dragSpawn state cancelDragSpawn leaves
cancelDragSpawn(ds) == NoDragSpawn

\* --------------------------------------------------- camera arithmetic
\* Camera numbers are exact rationals <<num, den>> with den > 0, in lowest
\* terms; the claims about the camera are claims of real arithmetic.
Abs(n) == IF n < 0 THEN 0 - n ELSE n

RECURSIVE GCD(_, _)
GCD(a, b) == IF b = 0 THEN a ELSE GCD(b, a % b)

RNorm(n, d) ==
    LET g == GCD(Abs(n), d)
    IN IF n < 0 THEN <<0 - (Abs(n) \div g), d \div g>> ELSE <<n \div g, d \div g>>

RInt(n) == <<n, 1>>
\* sums and products cancel common factors before multiplying
RAdd(a, b) ==
    LET g == GCD(a[2], b[2])
    IN RNorm(a[1] * (b[2] \div g) + b[1] * (a[2] \div g), (a[2] \div g) * b[2])
RNeg(a) == <<0 - a[1], a[2]>>
RSub(a, b) == RAdd(a, RNeg(b))
RMul(a, b) ==
    LET x == RNorm(a[1], b[2])
        y == RNorm(b[1], a[2])
    IN <<x[1] * y[1], x[2] * y[2]>>
RInv(b) == IF b[1] < 0 THEN <<0 - b[2], 0 - b[1]>> ELSE <<b[2], b[1]>>
RDiv(a, b) == RMul(a, RInv(b))
RLess(a, b) == a[1] * b[2] < b[1] * a[2]
RMax(a, b) == IF RLess(a, b) THEN b ELSE a
RMin(a, b) == IF RLess(b, a) THEN b ELSE a

\* the zoom range: Math.max(0.1, Math.min(5, ...))
MinScale == <<1, 10>>
MaxScale == <<5, 1>>

\* canvasWidth, canvasHeight (window.innerWidth, window.innerHeight)
CanvasWidth == 4
CanvasHeight == 2

\* camera of the initial state and of resetCamera
InitialCamera == [scale |-> RInt(1), offsetX |-> RInt(0), offsetY |-> RInt(0)]

\* pan(dx, dy)
pan(cam, dx, dy) ==
    [cam EXCEPT !.offsetX = RAdd(cam.offsetX, RInt(dx)),
                !.offsetY = RAdd(cam.offsetY, RInt(dy))]

\* mutant of zoom: the new scale is not clamped
zoomUnclamped(cam, factor, cx, cy) ==
    LET newScale == RMul(cam.scale, factor)
        scaleRatio == RDiv(newScale, cam.scale)
    IN [scale |-> newScale,
        offsetX |-> RSub(cx, RMul(RSub(cx, cam.offsetX), scaleRatio)),
        offsetY |-> RSub(cy, RMul(RSub(cy, cam.offsetY), scaleRatio))]

\* mutant of zoom: the offsets are scaled by the new scale, not by its ratio
zoomOffsetsByNewScale(cam, factor, cx, cy) ==
    LET newScale == RMax(MinScale, RMin(MaxScale, RMul(cam.scale, factor)))
        scaleRatio == newScale
    IN [scale |-> newScale,
        offsetX |-> RSub(cx, RMul(RSub(cx, cam.offsetX), scaleRatio)),
        offsetY |-> RSub(cy, RMul(RSub(cy, cam.offsetY), scaleRatio))]

\* mutant of zoom: the offsets are scaled by the requested factor
zoomByFactor(cam, factor, cx, cy) ==
    LET newScale == RMax(MinScale, RMin(MaxScale, RMul(cam.scale, factor)))
    IN [scale |-> newScale,
        offsetX |-> RSub(cx, RMul(RSub(cx, cam.offsetX), factor)),
        offsetY |-> RSub(cy, RMul(RSub(cy, cam.offsetY), factor))]

\* zoom(factor, centerX, centerY), cx and cy being the pivot after `??`
zoom(cam, factor, cx, cy) ==
    LET newScale == RMax(MinScale, RMin(MaxScale, RMul(cam.scale, factor)))
        scaleRatio == RDiv(newScale, cam.scale)
    IN [scale |-> newScale,
        offsetX |-> RSub(cx, RMul(RSub(cx, cam.offsetX), scaleRatio)),
        offsetY |-> RSub(cy, RMul(RSub(cy, cam.offsetY), scaleRatio))]

\* centerX ?? canvasWidth / 2, centerY ?? canvasHeight / 2
DefaultPivotX == RNorm(CanvasWidth, 2)
DefaultPivotY == RNorm(CanvasHeight, 2)

\* mutant of screenToWorld: the offset is not subtracted
screenToWorldNoOffset(cam, screenX, screenY) ==
    <<RDiv(screenX, cam.scale), RDiv(screenY, cam.scale)>>

\* IdeaCanvas.screenToWorld
screenToWorld(cam, screenX, screenY) ==
    <<RDiv(RSub(screenX, cam.offsetX), cam.scale),
      RDiv(RSub(screenY, cam.offsetY), cam.scale)>>

\* the Stage's transform (scaleX, scaleY, x, y): world point to screen point
StageToScreen(cam, worldX, worldY) ==
    <<RAdd(RMul(worldX, cam.scale), cam.offsetX),
      RAdd(RMul(worldY, cam.scale), cam.offsetY)>>

\* ----------------------------------------------- usePhysicsSimulation
Engine ==
    [simulationRef |-> simulationRef, physHeap |-> physHeap,
     nodesRef |-> nodesRef, simNodes |-> simNodes, tickNodes |-> tickNodes,
     links |-> links, alpha |-> alpha, timerOn |-> timerOn,
     isRunningRef |-> isRunningRef]

convertToPhysicsNode(node) ==
    [x |-> node.x, y |-> node.y, vx |-> 0, vy |-> 0, radius |-> node.radius,
     fx |-> IF node.status = "fruit" THEN node.x ELSE Null,
     fy |-> IF node.status = "fruit" THEN node.y ELSE Null]

\* mutant of ReconcileNode: the pin of a known node is not brought up to date
ReconcileNodeNoPin(existingNode, node) ==
    [existingNode EXCEPT !.x = node.x, !.y = node.y, !.radius = node.radius]

\* the existingNode branch of the effect: the object is kept and updated in place
ReconcileNode(existingNode, node) ==
    [existingNode EXCEPT
        !.x = node.x, !.y = node.y, !.radius = node.radius,
        !.fx = IF node.status = "fruit" THEN node.x ELSE Null,
        !.fy = IF node.status = "fruit" THEN node.y ELSE Null]

\* mutant of NewNodesMap: the entries of removed nodes stay in the map
NewNodesMapKeepsRemoved(e, ns) ==
    [id \in NodeIdSet(ns) \cup e.nodesRef |->
        IF id \notin NodeIdSet(ns) THEN e.physHeap[id]
        ELSE IF id \in e.nodesRef
        THEN ReconcileNode(e.physHeap[id], NodeById(ns, id))
        ELSE convertToPhysicsNode(NodeById(ns, id))]

\* mutant of NewNodesMap: every entry is created anew on each run
NewNodesMapRecreate(e, ns) ==
    [id \in NodeIdSet(ns) |-> convertToPhysicsNode(NodeById(ns, id))]

\* newNodesMap: one entry per store node, reusing the entry of a known id
NewNodesMap(e, ns) ==
    [id \in NodeIdSet(ns) |->
        IF id \in e.nodesRef
        THEN ReconcileNode(e.physHeap[id], NodeById(ns, id))
        ELSE convertToPhysicsNode(NodeById(ns, id))]

\* mutant of PhysicsNodes: the entries are pushed onto the previous array
PhysicsNodesAppended(e, ns) == e.simNodes \o NodeIds(ns)

\* physicsNodes: the entries in store order
PhysicsNodes(e, ns) == NodeIds(ns)

\* mutant of PhysicsEdges: every store edge is handed to the link force
PhysicsEdgesUnfiltered(keys, es) ==
    [i \in 1..Len(es) |-> [source |-> es[i].sourceId, target |-> es[i].targetId]]

\* physicsEdges: the edges whose two ends are keys of newNodesMap
PhysicsEdges(keys, es) ==
    LET kept == SelectSeq(es, LAMBDA edge :
                    edge.sourceId \in keys /\ edge.targetId \in keys)
    IN [i \in 1..Len(kept) |->
            [source |-> kept[i].sourceId, target |-> kept[i].targetId]]

\* d3's initializeNodes, run by forceSimulation(nodes) and by sim.nodes(nodes):
\* a node whose x or y is NaN is placed at a finite position near the origin
InitializeNode(p) ==
    IF p.x = NaN \/ p.y = NaN THEN [p EXCEPT !.x = 0, !.y = 0] ELSE p

\* simulation.stop(); isRunningRef.current = false  (cleanup, pause, !enabled)
StopEngine(e) ==
    IF e.simulationRef
    THEN [e EXCEPT !.timerOn = FALSE, !.isRunningRef = FALSE]
    ELSE e

\* the effect's body
EffectBody(e, ns, es) ==
    IF ~enabled THEN StopEngine(e)
    ELSE
    LET reconciled == NewNodesMap(e, ns)
        newMap == [id \in DOMAIN reconciled |-> InitializeNode(reconciled[id])]
        physicsNodes == PhysicsNodes(e, ns)
        physicsEdges == PhysicsEdges(DOMAIN newMap, es)
    IN IF ~e.simulationRef
       THEN \* forceSimulation(physicsNodes)...on('tick', ...): the timer starts
            [simulationRef |-> TRUE, physHeap |-> newMap,
             nodesRef |-> DOMAIN newMap, simNodes |-> physicsNodes,
             tickNodes |-> physicsNodes, links |-> physicsEdges,
             alpha |-> AlphaStart, timerOn |-> TRUE, isRunningRef |-> TRUE]
       ELSE \* sim.nodes(), links(), alpha(start), restart when not running
            LET captured == Range(e.tickNodes) \ DOMAIN newMap
            IN [e EXCEPT
                  !.physHeap = newMap @@ Restrict(e.physHeap, captured),
                  !.nodesRef = DOMAIN newMap,
                  !.simNodes = physicsNodes,
                  !.links = physicsEdges,
                  !.alpha = AlphaStart,
                  !.timerOn = IF ~e.isRunningRef THEN TRUE ELSE e.timerOn,
                  !.isRunningRef = TRUE]

\* one run of the effect after the first: the previous run's cleanup, then the body
EffectResult(e, ns, es) == EffectBody(StopEngine(e), ns, es)

\* mutant of DecayAlpha: half the decay rate
DecayAlphaSlow(a) == a - (a * AlphaDecayPct) \div 200

\* alpha += (alphaTarget - alpha) * alphaDecay, alphaTarget = 0
DecayAlpha(a) == a - (a * AlphaDecayPct) \div 100

\* Number.isFinite(v)
IsFinite(v) == v \notin {NaN, Infinity}

\* typeof v === 'number': true of every finite number, of NaN and of Infinity
TypeofNumber(v) == v \in Int

\* x + v in floating point: a non-finite coordinate stays non-finite (the
\* center force subtracts the mean of all x, Infinity - Infinity = NaN)
StepCoord(c, v) == IF IsFinite(c) THEN c + v ELSE NaN

\* d3's position step for one node and one axis pair: an unpinned node takes
\* the velocity v left by this tick's forces and moves by it, a pinned one
\* (fx / fy not null) is put on its pin with zero velocity
TickNode(p, v) ==
    [p EXCEPT
        !.vx = IF p.fx = Null THEN v[1] ELSE 0,
        !.x = IF p.fx = Null THEN StepCoord(p.x, v[1]) ELSE p.fx,
        !.vy = IF p.fy = Null THEN v[2] ELSE 0,
        !.y = IF p.fy = Null THEN StepCoord(p.y, v[2]) ELSE p.fy]

\* mutant of TickHandlerNodes: the handler iterates the simulation's current nodes
TickHandlerNodesCurrent == simNodes

\* mutant of TickHandlerNodes: the handler iterates the store's current nodes
TickHandlerNodesFromStore == NodeIds(nodes)

\* the array the 'tick' handler iterates: the physicsNodes of the effect run
\* that created the simulation
TickHandlerNodes == tickNodes

\* the 'tick' handler's test before it calls onNodeUpdate for a node:
\* node.id && typeof node.x === 'number' && typeof node.y === 'number'
TickHandlerGuard(id, p) == id # NoId /\ TypeofNumber(p.x) /\ TypeofNumber(p.y)

\* the onNodeUpdate calls of one run of the 'tick' handler over the array arr
TickHandlerCalls(arr, heap) ==
    LET passed == SelectSeq(arr, LAMBDA id : TickHandlerGuard(id, heap[id]))
    IN [i \in 1..Len(passed) |->
            [id |-> passed[i], x |-> heap[passed[i]].x, y |-> heap[passed[i]].y]]

\* reheat()
ReheatEngine(e) ==
    IF e.simulationRef
    THEN [e EXCEPT !.alpha = AlphaStart,
                   !.timerOn = IF ~e.isRunningRef THEN TRUE ELSE e.timerOn,
                   !.isRunningRef = TRUE]
    ELSE e

\* mutant of SetNodePositionEngine: the velocity is left as it was
SetNodePositionKeepsVelocity(e, nodeId, x, y) ==
    IF nodeId \in e.nodesRef /\ e.simulationRef
    THEN [e EXCEPT !.physHeap[nodeId] = [@ EXCEPT !.x = x, !.y = y]]
    ELSE e

\* setNodePosition(nodeId, x, y)
SetNodePositionEngine(e, nodeId, x, y) ==
    IF nodeId \in e.nodesRef /\ e.simulationRef
    THEN [e EXCEPT !.physHeap[nodeId] =
              [@ EXCEPT !.x = x, !.y = y, !.vx = 0, !.vy = 0]]
    ELSE e

SetEngine(e) ==
    /\ simulationRef' = e.simulationRef
    /\ physHeap' = e.physHeap
    /\ nodesRef' = e.nodesRef
    /\ simNodes' = e.simNodes
    /\ tickNodes' = e.tickNodes
    /\ links' = e.links
    /\ alpha' = e.alpha
    /\ timerOn' = e.timerOn
    /\ isRunningRef' = e.isRunningRef

\* the 'tick' handler's onNodeUpdate calls, in order: updateNode(id, {x, y})
RECURSIVE ApplyUpdates(_, _)
ApplyUpdates(ns, calls) ==
    IF calls = <<>> THEN ns
    ELSE ApplyUpdates(updateNodePos(ns, Head(calls).id, Head(calls).x, Head(calls).y),
                      Tail(calls))

\* --------------------------------------------------------------- Init
Init ==
    /\ nodes = <<>>
    /\ edges = <<>>
    /\ selectedNodeId = NoId
    /\ dragSpawn = NoDragSpawn
    /\ camera = InitialCamera
    /\ cameraOps = 0
    /\ nextId = 1
    /\ rootTimer = TRUE
    /\ simulationRef = FALSE
    /\ physHeap = <<>>
    /\ nodesRef = {}
    /\ simNodes = <<>>
    /\ tickNodes = <<>>
    /\ links = <<>>
    /\ alpha = AlphaStart
    /\ timerOn = FALSE
    /\ isRunningRef = FALSE
    /\ renderPending = TRUE
    /\ isDragging = {}
    /\ lastPosition = <<>>
    /\ pressedNode = NoId
    /\ konvaDragging = FALSE
    /\ isPanning = FALSE
    /\ isSpacePressed = FALSE
    /\ isHoveringEdge = {}
    /\ pointer = [node |-> NoId, d |-> 0]
    /\ button = Null
    /\ downTarget = NoId
    /\ dragOrigin = [id |-> NoId, x |-> 0, y |-> 0]
    /\ pointerOffset = <<0, 0>>
    /\ gestureMove = <<>>
    /\ reheats = 0
    /\ lastOp = "init"
    /\ emitted = <<>>
    /\ ticksSinceHeat = 0
    /\ paused = FALSE

\* ------------------------------------------------------------ actions
\* IdeaCanvas renders: node components mount and unmount with the node list,
\* then the physics effect runs (cleanup of the previous run, then the body)
RenderCommit ==
    /\ renderPending
    /\ SetEngine(EffectResult(Engine, nodes, edges))
    /\ ticksSinceHeat' = 0
    /\ isDragging' = isDragging \cap NodeIdSet(nodes)
    /\ lastPosition' =
          [id \in NodeIdSet(nodes) |->
              IF id \in DOMAIN lastPosition THEN lastPosition[id]
              ELSE <<NodeById(nodes, id).x, NodeById(nodes, id).y>>]
    /\ renderPending' = FALSE
    /\ UNCHANGED cameraOps
    /\ isHoveringEdge' = isHoveringEdge \cap NodeIdSet(nodes)
    /\ UNCHANGED <<isPanning, isSpacePressed, pointer, button, downTarget>>
    /\ UNCHANGED konvaDragVars
    /\ reheats' = 0
    /\ lastOp' = "effect"
    /\ UNCHANGED paused
    /\ emitted' = <<>>
    /\ UNCHANGED <<storeVars, pressedNode, konvaDragging>>

\* d3's step(): one tick of the forces and of the position integration, the
\* 'tick' handler's onNodeUpdate calls (each an updateNode on the store), and
\* the stop of the timer once alpha is below alphaMin.  The velocities v stand
\* for the net effect of the four forces and of velocityDecay on each node.
Tick ==
    /\ ~renderPending
    /\ simulationRef
    /\ timerOn
    /\ \E v \in [Range(simNodes) -> VelX \X VelY] :
        LET heap2 == [id \in DOMAIN physHeap |->
                         IF id \in Range(simNodes)
                         THEN TickNode(physHeap[id], v[id])
                         ELSE physHeap[id]]
            calls == TickHandlerCalls(TickHandlerNodes, heap2)
        IN /\ \A id \in Range(simNodes) :
                 /\ heap2[id].x \in XCoord \cup {NaN, Infinity}
                 /\ heap2[id].y \in YCoord \cup {NaN, Infinity}
           /\ physHeap' = heap2
           /\ alpha' = DecayAlpha(alpha)
           /\ timerOn' = ~(DecayAlpha(alpha) < AlphaMin)
           /\ nodes' = ApplyUpdates(nodes, calls)
           /\ renderPending' = (Len(calls) > 0)
           /\ emitted' = calls
    /\ ticksSinceHeat' = ticksSinceHeat + 1
    /\ UNCHANGED <<camera, cameraOps>>
    /\ UNCHANGED canvasVars
    /\ UNCHANGED konvaDragVars
    /\ reheats' = 0
    /\ lastOp' = "tick"
    /\ UNCHANGED paused
    /\ UNCHANGED <<edges, selectedNodeId, nextId, rootTimer, dragSpawn, simulationRef,
                   nodesRef, simNodes, tickNodes, links, isRunningRef, uiVars>>

\* Tick, while fewer than MaxTicks ticks were taken since the last heating
TickBounded == ticksSinceHeat < MaxTicks /\ Tick

\* setTimeout(() => store.initializeWithRoot(), 100)
InitializeWithRoot ==
    /\ ~renderPending
    /\ rootTimer
    /\ nodes = <<>> => nextId <= MaxNodes
    /\ rootTimer' = FALSE
    /\ IF nodes = <<>>
       THEN /\ nodes' = <<[id |-> nextId, x |-> CenterX, y |-> CenterY,
                           status |-> "flowering", radius |-> RootRadius,
                           parentId |-> NoId]>>
            /\ edges' = <<>>
            /\ nextId' = nextId + 1
            /\ renderPending' = TRUE
       ELSE UNCHANGED <<nodes, edges, nextId, renderPending>>
    /\ UNCHANGED <<camera, cameraOps>>
    /\ UNCHANGED canvasVars
    /\ UNCHANGED konvaDragVars
    /\ reheats' = 0
    /\ lastOp' = "initializeWithRoot"
    /\ UNCHANGED paused
    /\ emitted' = <<>>
    /\ UNCHANGED <<selectedNodeId, dragSpawn, physVars, uiVars>>

\* Toolbar.handleAddTestNode
ToolbarAddTestNode ==
    /\ ~renderPending
    /\ pressedNode = NoId
    /\ ~dragSpawn.isDragging
    /\ nextId <= MaxNodes
    /\ \E x \in XCoord, y \in YCoord, r \in TestRadii :
          nodes' = addNode(nodes, nextId, x, y, "seed", r, NoId)
    /\ nextId' = nextId + 1
    /\ renderPending' = TRUE
    /\ UNCHANGED <<camera, cameraOps>>
    /\ UNCHANGED canvasVars
    /\ UNCHANGED konvaDragVars
    /\ reheats' = 0
    /\ lastOp' = "addTestNode"
    /\ UNCHANGED paused
    /\ emitted' = <<>>
    /\ UNCHANGED <<edges, selectedNodeId, rootTimer, dragSpawn, physVars, uiVars>>

\* Toolbar.handleDelete
ToolbarDelete ==
    /\ ~renderPending
    /\ pressedNode = NoId
    /\ ~dragSpawn.isDragging
    /\ selectedNodeId # NoId
    /\ nodes' = removeNodeNodes(nodes, selectedNodeId)
    /\ edges' = removeNodeEdges(edges, selectedNodeId)
    /\ selectedNodeId' = removeNodeSelected(selectedNodeId, selectedNodeId)
    /\ renderPending' = TRUE
    /\ UNCHANGED <<camera, cameraOps>>
    /\ UNCHANGED canvasVars
    /\ UNCHANGED konvaDragVars
    /\ reheats' = 0
    /\ lastOp' = "delete"
    /\ UNCHANGED paused
    /\ emitted' = <<>>
    /\ UNCHANGED <<nextId, rootTimer, dragSpawn, physVars, uiVars>>

\* Toolbar.handleDelete while a spawn gesture is in progress: the button is
\* an HTML element outside the Stage, reached from the keyboard while the
\* mouse button is held, or with the pointer after a release outside the
\* Stage (no mouseup reaches IdeaCanvas.handleMouseUp, dragSpawn stays set).
ToolbarDeleteInGesture ==
    /\ ~renderPending
    /\ dragSpawn.isDragging
    /\ selectedNodeId # NoId
    /\ nodes' = removeNodeNodes(nodes, selectedNodeId)
    /\ edges' = removeNodeEdges(edges, selectedNodeId)
    /\ selectedNodeId' = removeNodeSelected(selectedNodeId, selectedNodeId)
    /\ renderPending' = TRUE
    /\ reheats' = 0
    /\ lastOp' = "delete"
    /\ emitted' = <<>>
    /\ UNCHANGED <<camera, cameraOps, canvasVars, konvaDragVars, paused, nextId,
                   rootTimer, dragSpawn, physVars, uiVars>>

\* Toolbar.handleStatusChange
ToolbarStatusChange ==
    /\ ~renderPending
    /\ pressedNode = NoId
    /\ ~dragSpawn.isDragging
    /\ selectedNodeId # NoId
    /\ \E status \in NodeStatus :
          nodes' = updateNodeStatus(nodes, selectedNodeId, status)
    /\ renderPending' = TRUE
    /\ UNCHANGED <<camera, cameraOps>>
    /\ UNCHANGED canvasVars
    /\ UNCHANGED konvaDragVars
    /\ reheats' = 0
    /\ lastOp' = "statusChange"
    /\ UNCHANGED paused
    /\ emitted' = <<>>
    /\ UNCHANGED <<edges, selectedNodeId, nextId, rootTimer, dragSpawn, physVars, uiVars>>

\* IdeaNode.handleMouseDown, left button on the node body (not the edge band):
\* setIsDragging(true), onDragStart -> handleNodeDragStart -> selectNode
NodeMouseDown ==
    /\ ~renderPending
    /\ pressedNode = NoId
    /\ ~dragSpawn.isDragging
    /\ \E id \in NodeIdSet(nodes) :
        /\ isDragging' = isDragging \cup {id}
        /\ lastPosition' = [lastPosition EXCEPT
                               ![id] = <<NodeById(nodes, id).x, NodeById(nodes, id).y>>]
        /\ selectedNodeId' = id
        /\ pressedNode' = id
    /\ konvaDragging' = FALSE
    /\ renderPending' = TRUE
    /\ UNCHANGED <<camera, cameraOps>>
    /\ UNCHANGED canvasVars
    /\ UNCHANGED konvaDragVars
    /\ reheats' = 0
    /\ lastOp' = "dragStart"
    /\ UNCHANGED paused
    /\ emitted' = <<>>
    /\ UNCHANGED <<nodes, edges, nextId, rootTimer, dragSpawn, physVars>>

\* Konva dragmove -> IdeaNode.handleDragMove -> handleNodeDragMove:
\* updateNode(nodeId, {x, y}); setNodePosition(nodeId, x, y)
NodeDragMove ==
    /\ ~renderPending
    /\ pressedNode # NoId
    /\ pressedNode \in isDragging
    /\ \E x \in XCoord, y \in YCoord :
        /\ lastPosition' = [lastPosition EXCEPT ![pressedNode] = <<x, y>>]
        /\ nodes' = updateNodePos(nodes, pressedNode, x, y)
        /\ SetEngine(SetNodePositionEngine(Engine, pressedNode, x, y))
    /\ konvaDragging' = TRUE
    /\ renderPending' = TRUE
    /\ UNCHANGED <<camera, cameraOps>>
    /\ UNCHANGED canvasVars
    /\ UNCHANGED konvaDragVars
    /\ reheats' = 0
    /\ lastOp' = "dragMove"
    /\ UNCHANGED paused
    /\ emitted' = <<>>
    /\ UNCHANGED <<edges, selectedNodeId, nextId, rootTimer, dragSpawn, ticksSinceHeat,
                   isDragging, pressedNode>>

\* release after a drag: Konva dragend -> IdeaNode.handleDragEnd ->
\* handleNodeDragEnd -> reheat()
NodeDragEnd ==
    /\ ~renderPending
    /\ pressedNode # NoId
    /\ konvaDragging
    /\ isDragging' = isDragging \ {pressedNode}
    /\ SetEngine(ReheatEngine(Engine))
    /\ ticksSinceHeat' = IF simulationRef THEN 0 ELSE ticksSinceHeat
    /\ pressedNode' = NoId
    /\ konvaDragging' = FALSE
    /\ UNCHANGED cameraOps
    /\ UNCHANGED canvasVars
    /\ UNCHANGED konvaDragVars
    /\ reheats' = 1
    /\ lastOp' = "dragEnd"
    /\ UNCHANGED paused
    /\ emitted' = <<>>
    /\ UNCHANGED <<storeVars, lastPosition, renderPending>>

\* release without a move: Konva delivers no dragend; the click on the node
\* runs IdeaNode.handleClick -> onClick -> selectNode(node.id)
NodeClick ==
    /\ ~renderPending
    /\ pressedNode # NoId
    /\ ~konvaDragging
    /\ selectedNodeId' = pressedNode
    /\ pressedNode' = NoId
    /\ renderPending' = TRUE
    /\ UNCHANGED <<camera, cameraOps>>
    /\ UNCHANGED canvasVars
    /\ UNCHANGED konvaDragVars
    /\ reheats' = 0
    /\ lastOp' = "click"
    /\ UNCHANGED paused
    /\ emitted' = <<>>
    /\ UNCHANGED <<nodes, edges, nextId, rootTimer, dragSpawn, physVars, isDragging,
                   lastPosition, konvaDragging>>

\* IdeaNode.handleMouseDown, left button on the edge band of a node:
\* onSpawnStart -> handleNodeSpawnStart -> startDragSpawn
NodeSpawnStart ==
    /\ ~renderPending
    /\ pressedNode = NoId
    /\ ~dragSpawn.isDragging
    /\ nextId <= MaxNodes
    /\ \E id \in NodeIdSet(nodes), x \in XCoord, y \in YCoord :
          dragSpawn' = startDragSpawn(id, x, y)
    /\ renderPending' = TRUE
    /\ UNCHANGED <<camera, cameraOps>>
    /\ UNCHANGED canvasVars
    /\ UNCHANGED konvaDragVars
    /\ reheats' = 0
    /\ lastOp' = "spawnStart"
    /\ UNCHANGED paused
    /\ emitted' = <<>>
    /\ UNCHANGED <<nodes, edges, selectedNodeId, nextId, rootTimer, physVars, uiVars>>

\* IdeaCanvas.handleMouseMove during the spawn gesture: updateDragSpawn
SpawnMove ==
    /\ ~renderPending
    /\ dragSpawn.isDragging
    /\ \E x \in XCoord, y \in YCoord :
          dragSpawn' = updateDragSpawn(dragSpawn, x, y)
    /\ renderPending' = TRUE
    /\ UNCHANGED <<camera, cameraOps>>
    /\ UNCHANGED canvasVars
    /\ UNCHANGED konvaDragVars
    /\ reheats' = 0
    /\ lastOp' = "spawnMove"
    /\ UNCHANGED paused
    /\ emitted' = <<>>
    /\ UNCHANGED <<nodes, edges, selectedNodeId, nextId, rootTimer, physVars, uiVars>>

\* IdeaCanvas.handleMouseUp during the spawn gesture: endDragSpawn, addNode,
\* addEdge, reheat()
SpawnEnd ==
    /\ ~renderPending
    /\ dragSpawn.isDragging
    /\ dragSpawn.sourceNodeId # NoId
    /\ dragSpawn' = endDragSpawn(dragSpawn)
    /\ nodes' = addNode(nodes, nextId, dragSpawn.currentX, dragSpawn.currentY,
                        "seed", SpawnRadius, dragSpawn.sourceNodeId)
    /\ edges' = addEdge(edges, dragSpawn.sourceNodeId, nextId)
    /\ nextId' = nextId + 1
    /\ SetEngine(ReheatEngine(Engine))
    /\ ticksSinceHeat' = IF simulationRef THEN 0 ELSE ticksSinceHeat
    /\ renderPending' = TRUE
    /\ UNCHANGED <<camera, cameraOps>>
    /\ UNCHANGED canvasVars
    /\ UNCHANGED konvaDragVars
    /\ reheats' = 1
    /\ lastOp' = "spawnEnd"
    /\ UNCHANGED paused
    /\ emitted' = <<>>
    /\ UNCHANGED <<selectedNodeId, rootTimer, uiVars>>

\* click on the empty canvas: handleStageClick -> selectNode(null)
StageClick ==
    /\ ~renderPending
    /\ pressedNode = NoId
    /\ ~dragSpawn.isDragging
    /\ selectedNodeId' = NoId
    /\ renderPending' = TRUE
    /\ UNCHANGED <<camera, cameraOps>>
    /\ UNCHANGED canvasVars
    /\ UNCHANGED konvaDragVars
    /\ reheats' = 0
    /\ lastOp' = "stageClick"
    /\ UNCHANGED paused
    /\ emitted' = <<>>
    /\ UNCHANGED <<nodes, edges, nextId, rootTimer, dragSpawn, physVars, uiVars>>

\* pause()
Pause ==
    /\ ~renderPending
    /\ SetEngine(StopEngine(Engine))
    /\ UNCHANGED cameraOps
    /\ UNCHANGED canvasVars
    /\ UNCHANGED konvaDragVars
    /\ reheats' = 0
    /\ lastOp' = "pause"
    /\ paused' = TRUE
    /\ emitted' = <<>>
    /\ UNCHANGED <<storeVars, uiVars, renderPending, ticksSinceHeat>>

\* mutant of ResumeEngine: resume() also resets alpha
ResumeEngineReheats(e) ==
    IF e.simulationRef /\ enabled
    THEN [e EXCEPT !.alpha = AlphaStart, !.timerOn = TRUE, !.isRunningRef = TRUE]
    ELSE e

\* resume()
ResumeEngine(e) ==
    IF e.simulationRef /\ enabled
    THEN [e EXCEPT !.timerOn = TRUE, !.isRunningRef = TRUE]
    ELSE e

Resume ==
    /\ ~renderPending
    /\ SetEngine(ResumeEngine(Engine))
    /\ UNCHANGED cameraOps
    /\ UNCHANGED canvasVars
    /\ UNCHANGED konvaDragVars
    /\ reheats' = 0
    /\ lastOp' = "resume"
    /\ paused' = FALSE
    /\ emitted' = <<>>
    /\ UNCHANGED <<storeVars, uiVars, renderPending, ticksSinceHeat>>

\* setNodeVelocity(nodeId, vx, vy): sets the velocity, then reheat()
SetNodeVelocityEngine(e, nodeId, vx, vy) ==
    IF nodeId \in e.nodesRef /\ e.simulationRef
    THEN ReheatEngine([e EXCEPT !.physHeap[nodeId] = [@ EXCEPT !.vx = vx, !.vy = vy]])
    ELSE e

SetNodeVelocity ==
    /\ ~renderPending
    /\ \E id \in Ids, vx \in VelX, vy \in VelY :
        /\ SetEngine(SetNodeVelocityEngine(Engine, id, vx, vy))
        /\ ticksSinceHeat' = IF id \in nodesRef /\ simulationRef
                             THEN 0 ELSE ticksSinceHeat
        /\ reheats' = IF id \in nodesRef /\ simulationRef THEN 1 ELSE 0
    /\ UNCHANGED cameraOps
    /\ UNCHANGED canvasVars
    /\ UNCHANGED konvaDragVars
    /\ lastOp' = "setNodeVelocity"
    /\ UNCHANGED paused
    /\ emitted' = <<>>
    /\ UNCHANGED <<storeVars, uiVars, renderPending>>

\* the store's addEdge called with any two ids (the store does not check them)
StoreAddEdge ==
    /\ ~renderPending
    /\ pressedNode = NoId
    /\ ~dragSpawn.isDragging
    /\ Len(edges) < MaxEdges
    /\ \E sourceId \in Ids, targetId \in Ids :
          edges' = addEdge(edges, sourceId, targetId)
    /\ renderPending' = TRUE
    /\ UNCHANGED <<camera, cameraOps>>
    /\ UNCHANGED canvasVars
    /\ UNCHANGED konvaDragVars
    /\ reheats' = 0
    /\ lastOp' = "addEdge"
    /\ UNCHANGED paused
    /\ emitted' = <<>>
    /\ UNCHANGED <<nodes, selectedNodeId, nextId, rootTimer, dragSpawn, physVars, uiVars>>

\* The store's drag-spawn operations called on their own, with any
\* arguments (the store does not check them).
StoreStartDragSpawn ==
    /\ ~renderPending
    /\ \E sourceNodeId \in Ids, x \in 0..MaxDragOffset, y \in YCoord :
          dragSpawn' = startDragSpawn(sourceNodeId, x, y)
    /\ renderPending' = TRUE
    /\ reheats' = 0
    /\ lastOp' = "startDragSpawn"
    /\ emitted' = <<>>
    /\ UNCHANGED <<nodes, edges, selectedNodeId, camera, nextId, rootTimer, physVars,
                   uiVars, canvasVars, konvaDragVars, paused, cameraOps>>

StoreUpdateDragSpawn ==
    /\ ~renderPending
    /\ \E x \in 0..MaxDragOffset, y \in YCoord :
          dragSpawn' = updateDragSpawn(dragSpawn, x, y)
    /\ renderPending' = TRUE
    /\ reheats' = 0
    /\ lastOp' = "updateDragSpawn"
    /\ emitted' = <<>>
    /\ UNCHANGED <<nodes, edges, selectedNodeId, camera, nextId, rootTimer, physVars,
                   uiVars, canvasVars, konvaDragVars, paused, cameraOps>>

StoreEndDragSpawn ==
    /\ ~renderPending
    /\ dragSpawn' = endDragSpawn(dragSpawn)
    /\ emitted' = endDragSpawnResult(dragSpawn)
    /\ renderPending' = (endDragSpawnResult(dragSpawn) # <<>>)
    /\ reheats' = 0
    /\ lastOp' = "endDragSpawn"
    /\ UNCHANGED <<nodes, edges, selectedNodeId, camera, nextId, rootTimer, physVars,
                   uiVars, canvasVars, konvaDragVars, paused, cameraOps>>

StoreCancelDragSpawn ==
    /\ ~renderPending
    /\ dragSpawn' = cancelDragSpawn(dragSpawn)
    /\ renderPending' = TRUE
    /\ reheats' = 0
    /\ lastOp' = "cancelDragSpawn"
    /\ emitted' = <<>>
    /\ UNCHANGED <<nodes, edges, selectedNodeId, camera, nextId, rootTimer, physVars,
                   uiVars, canvasVars, konvaDragVars, paused, cameraOps>>

NextSpawn ==
    \/ RenderCommit
    \/ InitializeWithRoot
    \/ StoreStartDragSpawn
    \/ StoreUpdateDragSpawn
    \/ StoreEndDragSpawn
    \/ StoreCancelDragSpawn

SpecSpawn == Init /\ [][NextSpawn]_vars

\* the store's removeNode called with any id, selected or not, present or not
StoreRemoveNode ==
    /\ ~renderPending
    /\ pressedNode = NoId
    /\ ~dragSpawn.isDragging
    /\ \E id \in Ids :
          /\ nodes' = removeNodeNodes(nodes, id)
          /\ edges' = removeNodeEdges(edges, id)
          /\ selectedNodeId' = removeNodeSelected(selectedNodeId, id)
    /\ renderPending' = TRUE
    /\ reheats' = 0
    /\ lastOp' = "removeNode"
    /\ emitted' = <<>>
    /\ UNCHANGED <<camera, cameraOps, canvasVars, konvaDragVars, paused, nextId,
                   rootTimer, dragSpawn, physVars, uiVars>>

NextStore ==
    \/ RenderCommit
    \/ InitializeWithRoot
    \/ ToolbarAddTestNode
    \/ NodeMouseDown
    \/ NodeClick
    \/ StoreAddEdge
    \/ StoreRemoveNode

SpecStore == Init /\ [][NextStore]_vars

\* factors of the toolbar's zoom buttons and of the wheel
ToolbarFactors == {<<6, 5>>, <<4, 5>>}
WheelFactors == {<<9, 10>>, <<11, 10>>}
\* factors the store's zoom can be called with beyond those
OtherFactors == {<<0 - 1, 1>>, <<0, 1>>, <<100, 1>>}
\* pointer positions on the screen and pan steps
ScreenX == {RInt(0), RInt(CanvasWidth)}
ScreenY == {RInt(0), RInt(CanvasHeight)}
PanSteps == {0 - 1, 0, 1}

\* Toolbar.handleZoomIn / handleZoomOut: zoom(1.2) / zoom(0.8)
ToolbarZoom ==
    /\ ~renderPending
    /\ pressedNode = NoId
    /\ cameraOps < MaxCameraOps
    /\ \E factor \in ToolbarFactors :
          camera' = zoom(camera, factor, DefaultPivotX, DefaultPivotY)
    /\ cameraOps' = cameraOps + 1
    /\ renderPending' = TRUE
    /\ UNCHANGED canvasVars
    /\ UNCHANGED konvaDragVars
    /\ reheats' = 0
    /\ lastOp' = "zoom"
    /\ UNCHANGED paused
    /\ emitted' = <<>>
    /\ UNCHANGED <<nodes, edges, selectedNodeId, dragSpawn, nextId, rootTimer,
                   physVars, uiVars>>

\* IdeaCanvas.handleWheel: zoom(0.9 or 1.1, pos.x, pos.y)
WheelZoom ==
    /\ ~renderPending
    /\ cameraOps < MaxCameraOps
    /\ \E factor \in WheelFactors, cx \in ScreenX, cy \in ScreenY :
          camera' = zoom(camera, factor, cx, cy)
    /\ cameraOps' = cameraOps + 1
    /\ renderPending' = TRUE
    /\ UNCHANGED canvasVars
    /\ UNCHANGED konvaDragVars
    /\ reheats' = 0
    /\ lastOp' = "zoom"
    /\ UNCHANGED paused
    /\ emitted' = <<>>
    /\ UNCHANGED <<nodes, edges, selectedNodeId, dragSpawn, nextId, rootTimer,
                   physVars, uiVars>>

\* the store's zoom called with any factor and pivot
StoreZoom ==
    /\ ~renderPending
    /\ cameraOps < MaxCameraOps
    /\ \E factor \in OtherFactors, cx \in ScreenX, cy \in ScreenY :
          camera' = zoom(camera, factor, cx, cy)
    /\ cameraOps' = cameraOps + 1
    /\ renderPending' = TRUE
    /\ UNCHANGED canvasVars
    /\ UNCHANGED konvaDragVars
    /\ reheats' = 0
    /\ lastOp' = "zoom"
    /\ UNCHANGED paused
    /\ emitted' = <<>>
    /\ UNCHANGED <<nodes, edges, selectedNodeId, dragSpawn, nextId, rootTimer,
                   physVars, uiVars>>

\* the store's pan(dx, dy)
StorePan ==
    /\ ~renderPending
    /\ cameraOps < MaxCameraOps
    /\ \E dx \in PanSteps, dy \in PanSteps : camera' = pan(camera, dx, dy)
    /\ cameraOps' = cameraOps + 1
    /\ renderPending' = TRUE
    /\ UNCHANGED canvasVars
    /\ UNCHANGED konvaDragVars
    /\ reheats' = 0
    /\ lastOp' = "pan"
    /\ UNCHANGED paused
    /\ emitted' = <<>>
    /\ UNCHANGED <<nodes, edges, selectedNodeId, dragSpawn, nextId, rootTimer,
                   physVars, uiVars>>

\* Toolbar: resetCamera
ToolbarResetCamera ==
    /\ ~renderPending
    /\ pressedNode = NoId
    /\ cameraOps < MaxCameraOps
    /\ camera' = InitialCamera
    /\ cameraOps' = cameraOps + 1
    /\ renderPending' = TRUE
    /\ UNCHANGED canvasVars
    /\ UNCHANGED konvaDragVars
    /\ reheats' = 0
    /\ lastOp' = "resetCamera"
    /\ UNCHANGED paused
    /\ emitted' = <<>>
    /\ UNCHANGED <<nodes, edges, selectedNodeId, dragSpawn, nextId, rootTimer,
                   physVars, uiVars>>

\* the camera: the store's pan, zoom and resetCamera and the handlers that
\* call them, over the running application
NextCamera ==
    \/ RenderCommit
    \/ InitializeWithRoot
    \/ ToolbarZoom
    \/ WheelZoom
    \/ StoreZoom
    \/ StorePan
    \/ ToolbarResetCamera

SpecCamera == Init /\ [][NextCamera]_vars

\* ------------------------------------------------------- pointer events
\* radius of the spawn indicator's listening Circle
IndicatorRadius == 8

\* IdeaNode.checkEdgeHover: distance >= radius * 0.7 && distance <= radius * 1.2
checkEdgeHover(d, r) == 10 * d >= 7 * r /\ 10 * d <= 12 * r

\* The shapes of a node component that listen: the main Circle (radius r) and,
\* while isHoveringEdge && spawnPoint, the indicator Circle around the spawn
\* point, which calculateSpawnPoint puts on the circle of radius r.  The
\* pointer is taken to stay on the ray of the spawn point.
HitsNode(n, d) ==
    /\ n # NoId
    /\ \/ d <= NodeById(nodes, n).radius
       \/ /\ n \in isHoveringEdge
          /\ Abs(d - NodeById(nodes, n).radius) <= IndicatorRadius

\* pointer distances tried for a node of radius r: the centre, about 0.7 r,
\* r, 1.1 r, 1.2 r, 1.3 r
DistsFor(r) ==
    {0, (7 * r) \div 10, r, (11 * r) \div 10, (12 * r) \div 10, (13 * r) \div 10}

PointerPlaces ==
    {[node |-> NoId, d |-> 0]} \cup
    UNION {{[node |-> n, d |-> d] : d \in DistsFor(NodeById(nodes, n).radius)} :
              n \in NodeIdSet(nodes)}

\* window keydown / keyup of the space bar: setIsSpacePressed
KeySpace ==
    /\ ~renderPending
    /\ isSpacePressed' = ~isSpacePressed
    /\ renderPending' = TRUE
    /\ UNCHANGED konvaDragVars
    /\ reheats' = 0
    /\ lastOp' = "keySpace"
    /\ emitted' = <<>>
    /\ UNCHANGED <<storeVars, physVars, uiVars, isPanning, isHoveringEdge, pointer,
                   button, downTarget, paused, cameraOps>>

\* mutant of calculateSpawnPoint: the pointer's own position
calculateSpawnPointAtPointer(n, d) == <<n.x + d, n.y>>

\* IdeaNode.calculateSpawnPoint for a pointer at distance d to the right of
\* the node's centre (angle = atan2(0, d) = 0, cos = 1, sin = 0)
calculateSpawnPoint(n, d) == <<n.x + n.radius, n.y>>

\* the world point of the pointer
PointerWorld == <<NodeById(nodes, pointer.node).x + pointer.d, NodeById(nodes, pointer.node).y>>

\* A mousemove while Konva drags no Group: IdeaNode.handleMouseMove on the
\* node whose shape is under the pointer, then (the event bubbles)
\* IdeaCanvas.handleMouseMove on the Stage.  The pointer is taken to move
\* along a horizontal line, so that pan's dy is 0.
PointerMove ==
    /\ ~renderPending
    /\ pressedNode = NoId
    /\ isPanning => cameraOps < MaxCameraOps
    /\ \E place \in PointerPlaces :
        /\ pointer' = place
        /\ isHoveringEdge' =
              IF HitsNode(place.node, place.d) /\ place.node \notin isDragging
              THEN IF checkEdgeHover(place.d, NodeById(nodes, place.node).radius)
                   THEN isHoveringEdge \cup {place.node}
                   ELSE isHoveringEdge \ {place.node}
              ELSE isHoveringEdge
    /\ IF isPanning
       THEN /\ \E dx \in PanSteps : camera' = pan(camera, dx, 0)
            /\ cameraOps' = cameraOps + 1
            /\ UNCHANGED <<dragSpawn, gestureMove>>
       ELSE IF dragSpawn.isDragging
       THEN /\ \E x \in XCoord, y \in YCoord :
                  /\ dragSpawn' = updateDragSpawn(dragSpawn, x, y)
                  /\ gestureMove' = <<x, y>>
            /\ UNCHANGED <<camera, cameraOps>>
       ELSE UNCHANGED <<dragSpawn, camera, cameraOps, gestureMove>>
    /\ renderPending' = (isPanning \/ dragSpawn.isDragging)
    /\ UNCHANGED <<dragOrigin, pointerOffset>>
    /\ reheats' = 0
    /\ lastOp' = "pointerMove"
    /\ emitted' = <<>>
    /\ UNCHANGED <<nodes, edges, selectedNodeId, nextId, rootTimer, physVars, uiVars,
                   isPanning, isSpacePressed, button, downTarget, paused>>

\* A pointer move while Konva holds a drag candidate whose component is not
\* in its isDragging state: Konva drags the Group, IdeaNode.handleDragMove
\* returns at once.
KonvaDragMoveIgnored ==
    /\ ~renderPending
    /\ pressedNode # NoId
    /\ pressedNode \notin isDragging
    /\ konvaDragging' = TRUE
    /\ IF dragSpawn.isDragging
       THEN \E x \in XCoord, y \in YCoord : gestureMove' = <<x, y>>
       ELSE UNCHANGED gestureMove
    /\ UNCHANGED <<dragOrigin, pointerOffset>>
    /\ reheats' = 0
    /\ lastOp' = "pointerMove"
    /\ emitted' = <<>>
    /\ UNCHANGED <<storeVars, physVars, isDragging, lastPosition, pressedNode,
                   canvasVars, renderPending, paused, cameraOps>>

\* A pointer move to the world point (px, py) while Konva holds a drag
\* candidate whose component is in its isDragging state: Konva moves the
\* Group to (x, y) and fires dragmove -> IdeaNode.handleDragMove ->
\* handleNodeDragMove; no mousemove reaches the Stage during the drag.
PointerDragMove ==
    /\ ~renderPending
    /\ pressedNode # NoId
    /\ pressedNode \in isDragging
    /\ \E x \in XCoord, y \in YCoord :
        /\ lastPosition' = [lastPosition EXCEPT ![pressedNode] = <<x, y>>]
        /\ nodes' = updateNodePos(nodes, pressedNode, x, y)
        /\ SetEngine(SetNodePositionEngine(Engine, pressedNode, x, y))
    /\ IF dragSpawn.isDragging
       THEN \E px \in XCoord, py \in YCoord : gestureMove' = <<px, py>>
       ELSE UNCHANGED gestureMove
    /\ konvaDragging' = TRUE
    /\ renderPending' = TRUE
    /\ reheats' = 0
    /\ lastOp' = "dragMove"
    /\ emitted' = <<>>
    /\ UNCHANGED <<edges, selectedNodeId, nextId, rootTimer, dragSpawn, camera,
                   ticksSinceHeat, isDragging, pressedNode, canvasVars, dragOrigin,
                   pointerOffset, paused, cameraOps>>

\* A mousedown of the left (0) or middle (1) button where the pointer is.
\* On a shape of a node: IdeaNode.handleMouseDown, which sets cancelBubble,
\* so that IdeaCanvas.handleMouseDown does not run; Konva takes the Group as
\* its drag candidate when the Group is draggable (draggable = !isHoveringEdge);
\* whether Konva drags with the middle button is left open.
\* On no shape: IdeaCanvas.handleMouseDown on the Stage.
PointerDown ==
    /\ ~renderPending
    /\ button = Null
    /\ \E b \in {0, 1} :
        LET n == pointer.node
            d == pointer.d
        IN /\ button' = b
           /\ IF HitsNode(n, d)
              THEN /\ downTarget' = n
                   /\ \E drags \in (IF b = 0 THEN {TRUE} ELSE BOOLEAN) :
                         pressedNode' =
                             IF drags /\ n \notin isHoveringEdge THEN n ELSE NoId
                   /\ UNCHANGED isPanning
                   /\ IF b # 0
                      THEN /\ UNCHANGED <<dragSpawn, isDragging, lastPosition,
                                          selectedNodeId>>
                           /\ renderPending' = FALSE
                      ELSE IF checkEdgeHover(d, NodeById(nodes, n).radius)
                      THEN /\ nextId <= MaxNodes
                           /\ LET point == calculateSpawnPoint(NodeById(nodes, n), d)
                              IN dragSpawn' = startDragSpawn(n, point[1], point[2])
                           /\ UNCHANGED <<isDragging, lastPosition, selectedNodeId>>
                           /\ renderPending' = TRUE
                      ELSE /\ isDragging' = isDragging \cup {n}
                           /\ lastPosition' =
                                 [lastPosition EXCEPT
                                     ![n] = <<NodeById(nodes, n).x, NodeById(nodes, n).y>>]
                           /\ selectedNodeId' = n
                           /\ UNCHANGED dragSpawn
                           /\ renderPending' = TRUE
              ELSE /\ downTarget' = NoId
                   /\ pressedNode' = NoId
                   /\ isPanning' = (isPanning \/ isSpacePressed \/ b = 1)
                   /\ renderPending' = (isSpacePressed \/ b = 1)
                   /\ UNCHANGED <<dragSpawn, isDragging, lastPosition, selectedNodeId>>
    /\ konvaDragging' = FALSE
    /\ gestureMove' = <<>>
    /\ UNCHANGED <<dragOrigin, pointerOffset>>
    /\ reheats' = 0
    /\ lastOp' = "pointerDown"
    /\ emitted' = <<>>
    /\ UNCHANGED <<nodes, edges, camera, nextId, rootTimer, physVars, isSpacePressed,
                   isHoveringEdge, pointer, paused, cameraOps>>

\* The mouseup of the held button: IdeaCanvas.handleMouseUp on the Stage (no
\* handler stops the mouseup on its way up), then the click when Konva did
\* not drag and the shape is the one of the mousedown (IdeaNode.handleClick,
\* or handleStageClick on the bare Stage), then Konva's dragend when it
\* dragged (IdeaNode.handleDragEnd -> handleNodeDragEnd -> reheat).
PointerUp ==
    /\ ~renderPending
    /\ button # Null
    /\ LET spawning == /\ ~isPanning
                       /\ dragSpawn.isDragging
                       /\ endDragSpawnResult(dragSpawn) # <<>>
           upTarget == IF HitsNode(pointer.node, pointer.d) THEN pointer.node ELSE NoId
           clicked == ~konvaDragging /\ downTarget = upTarget
       IN /\ isPanning' = FALSE
          /\ IF spawning
             THEN /\ dragSpawn' = endDragSpawn(dragSpawn)
                  /\ nodes' = addNode(nodes, nextId, dragSpawn.currentX, dragSpawn.currentY,
                                      "seed", SpawnRadius, dragSpawn.sourceNodeId)
                  /\ edges' = addEdge(edges, dragSpawn.sourceNodeId, nextId)
                  /\ nextId' = nextId + 1
             ELSE UNCHANGED <<dragSpawn, nodes, edges, nextId>>
          /\ selectedNodeId' = IF clicked THEN upTarget ELSE selectedNodeId
          /\ isDragging' = IF konvaDragging THEN isDragging \ {pressedNode} ELSE isDragging
          /\ IF spawning \/ konvaDragging
             THEN /\ SetEngine(ReheatEngine(Engine))
                  /\ ticksSinceHeat' = IF simulationRef THEN 0 ELSE ticksSinceHeat
             ELSE UNCHANGED physVars
          /\ renderPending' = (isPanning \/ spawning \/ clicked)
          /\ reheats' = (IF spawning THEN 1 ELSE 0) + (IF konvaDragging THEN 1 ELSE 0)
    /\ button' = Null
    /\ downTarget' = NoId
    /\ pressedNode' = NoId
    /\ konvaDragging' = FALSE
    /\ UNCHANGED konvaDragVars
    /\ lastOp' = "pointerUp"
    /\ emitted' = <<>>
    /\ UNCHANGED <<camera, rootTimer, lastPosition, isSpacePressed, isHoveringEdge,
                   pointer, paused, cameraOps>>

\* A mouseup with no button held (a second mouseup for one mousedown):
\* IdeaCanvas.handleMouseUp on the Stage; Konva raises no click, which it
\* does only for the first mouseup after a mousedown, and no dragend.
PointerUpDuplicate ==
    /\ ~renderPending
    /\ button = Null
    /\ LET spawning == /\ ~isPanning
                       /\ dragSpawn.isDragging
                       /\ endDragSpawnResult(dragSpawn) # <<>>
       IN /\ isPanning' = FALSE
          /\ IF spawning
             THEN /\ dragSpawn' = endDragSpawn(dragSpawn)
                  /\ nodes' = addNode(nodes, nextId, dragSpawn.currentX, dragSpawn.currentY,
                                      "seed", SpawnRadius, dragSpawn.sourceNodeId)
                  /\ edges' = addEdge(edges, dragSpawn.sourceNodeId, nextId)
                  /\ nextId' = nextId + 1
                  /\ SetEngine(ReheatEngine(Engine))
                  /\ ticksSinceHeat' = IF simulationRef THEN 0 ELSE ticksSinceHeat
             ELSE UNCHANGED <<dragSpawn, nodes, edges, nextId, physVars>>
          /\ renderPending' = (isPanning \/ spawning)
          /\ reheats' = IF spawning THEN 1 ELSE 0
    /\ lastOp' = "pointerUpDuplicate"
    /\ emitted' = <<>>
    /\ UNCHANGED <<selectedNodeId, camera, rootTimer, uiVars, konvaDragVars,
                   isSpacePressed, isHoveringEdge, pointer, button, downTarget,
                   paused, cameraOps>>

\* the pointer and the space bar over the running application
NextPointer ==
    \/ RenderCommit
    \/ InitializeWithRoot
    \/ KeySpace
    \/ PointerMove
    \/ PointerDown
    \/ PointerDragMove
    \/ KonvaDragMoveIgnored
    \/ PointerUp
    \/ PointerUpDuplicate

SpecPointer == Init /\ [][NextPointer]_vars

\* ------------------------------------------------- Konva drag and drop
\* Konva starts the drag of a draggable Group once the pointer is this many
\* pixels, on one axis, from where it was pressed (Konva.dragDistance)
DragDistance == 3

Max(a, b) == IF a < b THEN b ELSE a

\* pointer displacements between two pointer events, per axis
PointerSteps == {0 - 1, 0, 1}

\* mutant of KonvaDragPosition: the Group follows the pointer from where the
\* drag started, not from where the pointer was pressed
KonvaDragPositionFromStart(origin, offset) ==
    <<origin.x + Max(offset[1] - DragDistance, 0),
      origin.y + Max(offset[2] - DragDistance, 0)>>

\* The position Konva gives the dragged Group: the pointer, less the offset
\* the pointer had from the Group at the mousedown.  The Stage has scale 1
\* (camera.scale is 1 in this specification), so pixels are world units.
KonvaDragPosition(origin, offset) == <<origin.x + offset[1], origin.y + offset[2]>>

\* left mousedown on the body of a node whose Group is draggable:
\* IdeaNode.handleMouseDown (setIsDragging(true), onDragStart -> selectNode),
\* and Konva notes the Group and the pointer position
DragPointerDown ==
    /\ ~renderPending
    /\ pressedNode = NoId
    /\ ~dragSpawn.isDragging
    /\ camera.scale = RInt(1)
    /\ \E id \in NodeIdSet(nodes) :
        /\ isDragging' = isDragging \cup {id}
        /\ lastPosition' = [lastPosition EXCEPT
                               ![id] = <<NodeById(nodes, id).x, NodeById(nodes, id).y>>]
        /\ selectedNodeId' = id
        /\ pressedNode' = id
        /\ dragOrigin' = [id |-> id, x |-> NodeById(nodes, id).x,
                          y |-> NodeById(nodes, id).y]
    /\ pointerOffset' = <<0, 0>>
    /\ UNCHANGED gestureMove
    /\ konvaDragging' = FALSE
    /\ renderPending' = TRUE
    /\ reheats' = 0
    /\ lastOp' = "dragStart"
    /\ emitted' = <<>>
    /\ UNCHANGED <<nodes, edges, camera, nextId, rootTimer, dragSpawn, physVars,
                   canvasVars, paused, cameraOps>>

\* a pointer move with the button down on a node: below the drag distance
\* Konva does nothing; from the drag distance on it moves the Group and
\* fires dragmove -> IdeaNode.handleDragMove -> handleNodeDragMove
DragPointerMove ==
    /\ ~renderPending
    /\ pressedNode # NoId
    /\ pressedNode \in isDragging
    /\ \E dx \in PointerSteps, dy \in PointerSteps :
        LET offset == <<pointerOffset[1] + dx, pointerOffset[2] + dy>>
            dragging == konvaDragging \/
                        Max(Abs(offset[1]), Abs(offset[2])) >= DragDistance
            pos == KonvaDragPosition(dragOrigin, offset)
        IN /\ Abs(offset[1]) <= MaxDragOffset
           /\ Abs(offset[2]) <= MaxDragOffset
           /\ dragging => pos[1] \in 0..MaxDragOffset /\ pos[2] \in 0..MaxDragOffset
           /\ pointerOffset' = offset
           /\ konvaDragging' = dragging
           /\ IF dragging
              THEN /\ lastPosition' = [lastPosition EXCEPT ![pressedNode] = pos]
                   /\ nodes' = updateNodePos(nodes, pressedNode, pos[1], pos[2])
                   /\ SetEngine(SetNodePositionEngine(Engine, pressedNode, pos[1], pos[2]))
                   /\ renderPending' = TRUE
                   /\ lastOp' = "dragMove"
              ELSE /\ UNCHANGED <<lastPosition, nodes, simulationRef, physHeap, nodesRef,
                                  simNodes, tickNodes, links, alpha, timerOn,
                                  isRunningRef, renderPending>>
                   /\ lastOp' = "pointerMove"
    /\ reheats' = 0
    /\ emitted' = <<>>
    /\ UNCHANGED <<edges, selectedNodeId, dragSpawn, camera, nextId, rootTimer,
                   ticksSinceHeat, isDragging, pressedNode, dragOrigin, gestureMove,
                   canvasVars, paused, cameraOps>>

\* the node and its simulation over a node drag, pixel by pixel
NextDrag ==
    \/ RenderCommit
    \/ InitializeWithRoot
    \/ DragPointerDown
    \/ DragPointerMove
    \/ NodeDragEnd
    \/ NodeClick

SpecDrag == Init /\ [][NextDrag]_vars

\* the application: IdeaCanvas, its node components and the Toolbar
AppNext ==
    \/ RenderCommit
    \/ InitializeWithRoot
    \/ ToolbarAddTestNode
    \/ ToolbarDelete
    \/ ToolbarStatusChange
    \/ NodeMouseDown
    \/ NodeDragMove
    \/ NodeDragEnd
    \/ NodeClick
    \/ NodeSpawnStart
    \/ SpawnMove
    \/ SpawnEnd
    \/ StageClick

Next ==
    \/ AppNext
    \/ TickBounded

Spec == Init /\ [][Next]_vars

\* selecting, deleting and spawning, the Toolbar staying usable during a
\* spawn gesture
NextRemove ==
    \/ RenderCommit
    \/ InitializeWithRoot
    \/ NodeMouseDown
    \/ NodeClick
    \/ StageClick
    \/ ToolbarDelete
    \/ ToolbarDeleteInGesture
    \/ NodeSpawnStart
    \/ SpawnMove
    \/ SpawnEnd

SpecRemove == Init /\ [][NextRemove]_vars

\* the application and the hook operations it does not call itself
NextHook ==
    \/ RenderCommit
    \/ InitializeWithRoot
    \/ ToolbarAddTestNode
    \/ NodeMouseDown
    \/ NodeDragMove
    \/ NodeDragEnd
    \/ NodeClick
    \/ NodeSpawnStart
    \/ SpawnMove
    \/ SpawnEnd
    \/ TickBounded
    \/ Pause
    \/ Resume
    \/ SetNodeVelocity

SpecHook == Init /\ [][NextHook]_vars

\* the application with one node and no bound on the ticks: the simulation
\* cools down by itself
NextCool ==
    \/ RenderCommit
    \/ InitializeWithRoot
    \/ NodeMouseDown
    \/ NodeDragMove
    \/ NodeDragEnd
    \/ NodeClick
    \/ Tick

SpecCool == Init /\ [][NextCool]_vars

\* SpecCool with its scheduling: d3's timer runs step() on every animation
\* frame while it is scheduled, and React commits every render it scheduled
SpecCoolFair ==
    Init /\ [][NextCool]_vars /\ WF_vars(Tick) /\ WF_vars(RenderCommit)

\* the hook mounted over a store that already holds one node: the simulation
\* is created by an effect run whose physicsNodes array is not empty
InitHandler ==
    /\ \E x \in XCoord \cup {Infinity}, y \in YCoord, status \in {"seed", "fruit"} :
          nodes = <<[id |-> 1, x |-> x, y |-> y, status |-> status,
                     radius |-> RootRadius, parentId |-> NoId]>>
    /\ edges = <<>>
    /\ selectedNodeId = NoId
    /\ dragSpawn = NoDragSpawn
    /\ camera = InitialCamera
    /\ cameraOps = 0
    /\ nextId = 2
    /\ rootTimer = TRUE
    /\ simulationRef = FALSE
    /\ physHeap = <<>>
    /\ nodesRef = {}
    /\ simNodes = <<>>
    /\ tickNodes = <<>>
    /\ links = <<>>
    /\ alpha = AlphaStart
    /\ timerOn = FALSE
    /\ isRunningRef = FALSE
    /\ renderPending = TRUE
    /\ isDragging = {}
    /\ lastPosition = <<>>
    /\ pressedNode = NoId
    /\ konvaDragging = FALSE
    /\ isPanning = FALSE
    /\ isSpacePressed = FALSE
    /\ isHoveringEdge = {}
    /\ pointer = [node |-> NoId, d |-> 0]
    /\ button = Null
    /\ downTarget = NoId
    /\ dragOrigin = [id |-> NoId, x |-> 0, y |-> 0]
    /\ pointerOffset = <<0, 0>>
    /\ gestureMove = <<>>
    /\ reheats = 0
    /\ lastOp = "init"
    /\ emitted = <<>>
    /\ ticksSinceHeat = 0
    /\ paused = FALSE

NextHandler ==
    \/ RenderCommit
    \/ InitializeWithRoot
    \/ ToolbarAddTestNode
    \/ NodeMouseDown
    \/ NodeDragMove
    \/ NodeDragEnd
    \/ NodeClick
    \/ TickBounded

SpecHandler == InitHandler /\ [][NextHandler]_vars

\* the same hook, the Toolbar's delete button included
NextHandlerDelete ==
    \/ NextHandler
    \/ ToolbarDelete

SpecHandlerDelete == InitHandler /\ [][NextHandlerDelete]_vars

\* the store with edges added directly, the toolbar and the simulation
NextEdges ==
    \/ RenderCommit
    \/ InitializeWithRoot
    \/ ToolbarAddTestNode
    \/ ToolbarDelete
    \/ NodeMouseDown
    \/ NodeClick
    \/ StoreAddEdge
    \/ TickBounded

SpecEdges == Init /\ [][NextEdges]_vars

\* ------------------------------------------------------------- claims
\* ops that call reheat()
ReheatOps == {"dragEnd", "spawnEnd", "setNodeVelocity"}

\* C1: while a node is being dragged (after a drag move and before the drag
\* end), every tick leaves the node's simulated position equal to the
\* position given by the most recent drag move.
C1_DraggedNodeHeldByTick ==
    (lastOp = "tick" /\ konvaDragging /\ pressedNode \in nodesRef) =>
        /\ physHeap[pressedNode].x = lastPosition[pressedNode][1]
        /\ physHeap[pressedNode].y = lastPosition[pressedNode][2]

\* C2: once the simulation effect has reconciled, and after any number of
\* ticks, every node with status fruit has its pin (fx, fy) set to its
\* canonical position and its simulated position equal to it.
C2_FruitPinned ==
    (simulationRef /\ ~renderPending) =>
        \A i \in 1..Len(nodes) :
            nodes[i].status = "fruit" =>
                /\ nodes[i].id \in nodesRef
                /\ physHeap[nodes[i].id].fx = nodes[i].x
                /\ physHeap[nodes[i].id].fy = nodes[i].y
                /\ physHeap[nodes[i].id].x = nodes[i].x
                /\ physHeap[nodes[i].id].y = nodes[i].y

\* C2 witness: two ticks have passed with a fruit node beside a node that
\* the forces are moving
C2_Witness ==
    /\ lastOp = "tick"
    /\ ticksSinceHeat >= 2
    /\ \E i \in 1..Len(nodes) : nodes[i].status = "fruit"
    /\ \E id \in nodesRef : physHeap[id].vx # 0

\* C3: between the start of a node drag and its release, the tick handler's
\* position-update callback is never called for the dragged node, and the
\* only operation that changes that node's canonical position is the drag
\* move.
C3_OnlyDragWritesPosition ==
    [][(pressedNode # NoId /\ pressedNode \in NodeIdSet(nodes)) =>
          /\ \A i \in 1..Len(emitted') : emitted'[i].id # pressedNode
          /\ (/\ pressedNode \in NodeIdSet(nodes')
              /\ \/ NodeById(nodes', pressedNode).x # NodeById(nodes, pressedNode).x
                 \/ NodeById(nodes', pressedNode).y # NodeById(nodes, pressedNode).y)
             => lastOp' = "dragMove"]_vars

\* C3 witness: a tick has run while a drag was under way
C3_Witness ==
    /\ lastOp = "tick"
    /\ konvaDragging
    /\ pressedNode \in Range(simNodes)

\* C4: no simulation tick occurs between handleNodeDragStart and the end of
\* the drag.
C4_NoTickDuringDrag == pressedNode # NoId => lastOp # "tick"

\* C5 (as claimed): alpha never increases unless reheat() is called.
C5_AlphaRisesOnlyOnReheat ==
    [][(simulationRef /\ alpha' > alpha) => lastOp' \in ReheatOps]_vars

\* C5 (amended): alpha never increases unless reheat() is called or the
\* simulation effect re-runs; a tick, pause, resume and setNodePosition leave
\* it equal or lower.
C5_AlphaRisesOnReheatOrEffect ==
    [][(simulationRef /\ alpha' > alpha) =>
          lastOp' \in ReheatOps \cup {"effect"}]_vars

\* C5 witness: resume() has acted on a decayed alpha and left it decayed
C5_Witness ==
    /\ lastOp = "resume"
    /\ timerOn
    /\ alpha < AlphaStart

\* C6 (as claimed): 150 ticks after alpha was set to alpha.start, alpha is
\* below alphaMin.
C6_CoolWithin150 == ticksSinceHeat >= 150 => alpha < AlphaMin

\* C6 (amended): 342 ticks after alpha was set to alpha.start, alpha is below
\* alphaMin.
C6_CoolWithin342 == ticksSinceHeat >= 342 => alpha < AlphaMin

\* C6 witness: the 342nd tick has been taken
C6_Witness == ticksSinceHeat = 342 /\ lastOp = "tick"

\* C7: when the simulation has cooled by ticking alone (alpha below alphaMin,
\* the timer stopped), a call of reheat() sets alpha to alpha.start and the
\* timer runs again.
C7_ReheatResumesTicking ==
    [][(simulationRef /\ ~timerOn /\ alpha < AlphaMin /\ lastOp' \in ReheatOps)
          => (alpha' = AlphaStart /\ timerOn')]_vars

\* C8: after pause() and until resume(), no simulation tick occurs.
C8_NoTickWhilePaused == paused => lastOp # "tick"

\* C9: a run of the simulation effect keeps the shadow entry of every id
\* present before and after with its velocity unchanged, creates an entry at
\* the canonical position with zero velocity for every new id, and leaves no
\* entry for an id that is no longer in the store.
C9_Reconcile ==
    [][lastOp' = "effect" =>
          /\ nodesRef' = NodeIdSet(nodes)
          /\ \A id \in nodesRef' \cap nodesRef :
                /\ physHeap'[id].vx = physHeap[id].vx
                /\ physHeap'[id].vy = physHeap[id].vy
          /\ \A id \in nodesRef' \ nodesRef :
                /\ physHeap'[id].x = NodeById(nodes, id).x
                /\ physHeap'[id].y = NodeById(nodes, id).y
                /\ physHeap'[id].vx = 0
                /\ physHeap'[id].vy = 0]_vars

\* C9 witness: the effect has run over two nodes and an entry it kept still
\* has the velocity the ticks gave it
C9_Witness ==
    /\ lastOp = "effect"
    /\ Len(nodes) = 2
    /\ \E id \in nodesRef : physHeap[id].vx # 0

LiveEdges ==
    LET live == SelectSeq(edges, LAMBDA edge :
                    /\ edge.sourceId \in NodeIdSet(nodes)
                    /\ edge.targetId \in NodeIdSet(nodes))
    IN [i \in 1..Len(live) |->
            [source |-> live[i].sourceId, target |-> live[i].targetId]]

\* C11: after every run of the simulation effect the links of the link force
\* are exactly the store edges whose sourceId and targetId are both ids of
\* current nodes, and every link end is a node of the simulation (forceLink
\* finds it, so no "node not found" error is thrown).
C11_LinksAreLiveEdges ==
    [][lastOp' = "effect" =>
          /\ links' = LiveEdges
          /\ \A i \in 1..Len(links') :
                /\ links'[i].source \in Range(simNodes')
                /\ links'[i].target \in Range(simNodes')]_vars

\* C11 witness: the effect has run over a store that holds an edge to a
\* missing node beside an edge between two current nodes
C11_Witness ==
    /\ lastOp = "effect"
    /\ Len(links) >= 1
    /\ \E i \in 1..Len(edges) :
          \/ edges[i].sourceId \notin NodeIdSet(nodes)
          \/ edges[i].targetId \notin NodeIdSet(nodes)

\* C12: on every tick, each node of the simulation whose simulated position
\* changed during the tick gets exactly one position-update callback, and it
\* carries the new position; nodes added after the simulation was created
\* included.
C12_TickEmitsMovedNodes ==
    [][lastOp' = "tick" =>
          \A id \in Range(simNodes) :
              (\/ physHeap'[id].x # physHeap[id].x
               \/ physHeap'[id].y # physHeap[id].y)
              => /\ Cardinality({i \in 1..Len(emitted') : emitted'[i].id = id}) = 1
                 /\ \E i \in 1..Len(emitted') :
                       emitted'[i] = [id |-> id, x |-> physHeap'[id].x,
                                      y |-> physHeap'[id].y]]_vars

Cooled ==
    /\ simulationRef
    /\ ~timerOn
    /\ alpha < AlphaMin
    /\ nodesRef = NodeIdSet(nodes)
    /\ nodesRef \subseteq DOMAIN physHeap

\* the last step was a tick or the commit of a render: no pointer event and no
\* change of the graph was delivered by it
NoEventOp == lastOp \in {"init", "tick", "effect"}

\* C14: a running simulation eventually cools (alpha below alphaMin, the timer
\* stopped, the shadow state retained) unless a pointer event or a change of
\* the graph comes first.
C14_EventuallyCools ==
    (simulationRef /\ timerOn) ~> (Cooled \/ ~NoEventOp)

\* C14 witness: the simulation has cooled over a store that holds a node
C14_Witness == Cooled /\ Len(nodes) = 1 /\ lastOp = "tick"

\* ---------------------------------------------------------------- camera
ZoomFactors == ToolbarFactors \cup WheelFactors \cup OtherFactors
PivotsX == ScreenX \cup {DefaultPivotX}
PivotsY == ScreenY \cup {DefaultPivotY}
InZoomRange(s) == ~RLess(s, MinScale) /\ ~RLess(MaxScale, s)

\* C15: under any sequence of pan, zoom (any factor, any pivot) and
\* resetCamera the camera's scale lies in [0.1, 5]; a zoom whose product
\* scale * factor leaves the range is applied with the scale set to the bound
\* it crossed, and a zoom whose product is in the range sets that product.
C15_ScaleInRange ==
    /\ InZoomRange(camera.scale)
    /\ \A factor \in ZoomFactors, cx \in PivotsX, cy \in PivotsY :
          LET product == RMul(camera.scale, factor)
              z == zoom(camera, factor, cx, cy)
          IN /\ RLess(product, MinScale) => z.scale = MinScale
             /\ RLess(MaxScale, product) => z.scale = MaxScale
             /\ InZoomRange(product) => z.scale = product

\* a zoom clamped at the lower bound was applied at a pivot off the origin
C15_Witness ==
    /\ lastOp = "zoom"
    /\ camera.scale = MinScale
    /\ camera.offsetX # RInt(0)

\* C16: zoom(factor, pivot) keeps the world point under the pivot under the
\* pivot: the screen position of screenToWorld(pivot) after the zoom is the
\* pivot, for every factor, clamped or not, and for the default pivot too.
C16_PivotFixed ==
    \A factor \in ZoomFactors, cx \in PivotsX, cy \in PivotsY :
        LET w == screenToWorld(camera, cx, cy)
            z == zoom(camera, factor, cx, cy)
        IN StageToScreen(z, w[1], w[2]) = <<cx, cy>>

\* a zoom clamped at the upper bound was applied to a panned camera whose
\* scale was not 1
C16_Witness ==
    /\ lastOp = "zoom"
    /\ cameraOps = MaxCameraOps
    /\ camera.scale = MaxScale
    /\ camera.offsetX[2] # 1

\* C17: after any sequence of pan and zoom, converting a screen point to
\* world coordinates with screenToWorld and back with the Stage's transform
\* (world * scale + offset) yields the screen point.
C17_RoundTrip ==
    \A sx \in PivotsX, sy \in PivotsY :
        LET w == screenToWorld(camera, sx, sy)
        IN StageToScreen(camera, w[1], w[2]) = <<sx, sy>>

\* a camera with a fractional scale and non-zero offsets on both axes
C17_Witness ==
    /\ cameraOps = MaxCameraOps
    /\ camera.scale[2] # 1
    /\ camera.offsetX # RInt(0)
    /\ camera.offsetY # RInt(0)
    /\ ~renderPending

\* --------------------------------------------------------------- pointer
\* C18: a pointer-down with the space bar held or with the middle button
\* starts panning wherever it lands; on a node it starts panning and starts
\* neither a node drag nor a spawn.
C18_PanModifierAlwaysPans ==
    [][(lastOp' = "pointerDown" /\ (isSpacePressed \/ button' = 1))
          => /\ isPanning'
             /\ isDragging' = isDragging
             /\ dragSpawn' = dragSpawn]_vars

\* C19: a left pointer-down without the space bar at distance d from the
\* centre of a node of radius r starts a spawn from that node when
\* 0.7 r <= d <= 1.2 r and a drag of that node when d < 0.7 r, never both.
C19_BandSpawnsBodyDrags ==
    [][(/\ lastOp' = "pointerDown"
        /\ button' = 0
        /\ ~isSpacePressed
        /\ pointer.node # NoId)
          => LET n == pointer.node
                 d == pointer.d
                 r == NodeById(nodes, n).radius
                 spawns == dragSpawn'.isDragging /\ dragSpawn'.sourceNodeId = n
                 drags == n \in isDragging' /\ selectedNodeId' = n
             IN /\ (10 * d >= 7 * r /\ 10 * d <= 12 * r) => spawns
                /\ 10 * d < 7 * r => drags
                /\ ~(spawns /\ drags)]_vars

\* C20: after any pointer-up the controller is idle: isPanning is false,
\* dragSpawn.isDragging is false and no node component has isDragging true.
C20_IdleAfterPointerUp ==
    lastOp = "pointerUp" =>
        /\ ~isPanning
        /\ ~dragSpawn.isDragging
        /\ isDragging = {}

\* C21: the gestures are mutually exclusive: in every reachable state at most
\* one of panning (isPanning), dragging a node (some component's isDragging)
\* and spawning an edge (dragSpawn.isDragging) is active.
C21_GesturesExclusive ==
    /\ ~(isPanning /\ isDragging # {})
    /\ ~(isPanning /\ dragSpawn.isDragging)
    /\ ~(isDragging # {} /\ dragSpawn.isDragging)

\* ------------------------------------------------------------- node drag
\* C22: every pointer-move of a node drag performs both writes: when
\* handleNodeDragMove(id, x, y) has returned, the store position of node id
\* and its shadow position in the simulation are both (x, y) and its shadow
\* velocity is zero.
C22_DragMoveWritesBoth ==
    lastOp = "dragMove" =>
        /\ pressedNode \in NodeIdSet(nodes)
        /\ pressedNode \in nodesRef
        /\ NodeById(nodes, pressedNode).x = lastPosition[pressedNode][1]
        /\ NodeById(nodes, pressedNode).y = lastPosition[pressedNode][2]
        /\ physHeap[pressedNode].x = lastPosition[pressedNode][1]
        /\ physHeap[pressedNode].y = lastPosition[pressedNode][2]
        /\ physHeap[pressedNode].vx = 0
        /\ physHeap[pressedNode].vy = 0

\* a drag move to the far end of the axis, after ticks ran since the press
C22_Witness ==
    /\ lastOp = "dragMove"
    /\ lastPosition[pressedNode][1] = MaxX
    /\ ticksSinceHeat > 0
    /\ Len(nodes) = MaxNodes

\* the node pressed last, released
Released == lastOp \in {"dragEnd", "click"} /\ dragOrigin.id \in NodeIdSet(nodes)

\* C23 as stated: with scale 1 and offset (0, 0), a pointer-down inside the
\* body of node A, a move by (dx, dy) and the release leave A's store
\* position at its position at the pointer-down plus (dx, dy).
C23_DragMovesByOffset ==
    Released =>
        /\ NodeById(nodes, dragOrigin.id).x = dragOrigin.x + pointerOffset[1]
        /\ NodeById(nodes, dragOrigin.id).y = dragOrigin.y + pointerOffset[2]

\* C23 amended: the same when the pointer got at least the drag distance
\* (3 pixels on one axis) away from where it was pressed at some moment
\* before the release; when it never did, Konva starts no drag and A's store
\* position after the release is its position at the pointer-down.
C23_DragMovesByOffsetOnceStarted ==
    /\ (Released /\ lastOp = "dragEnd") =>
          /\ NodeById(nodes, dragOrigin.id).x = dragOrigin.x + pointerOffset[1]
          /\ NodeById(nodes, dragOrigin.id).y = dragOrigin.y + pointerOffset[2]
    /\ (Released /\ lastOp = "click") =>
          /\ NodeById(nodes, dragOrigin.id).x = dragOrigin.x
          /\ NodeById(nodes, dragOrigin.id).y = dragOrigin.y

\* a drag released after the pointer came back to within the drag distance
C23_Witness ==
    /\ Released
    /\ lastOp = "dragEnd"
    /\ pointerOffset = <<1, 2>>
    /\ camera = InitialCamera

\* C24: releasing a node drag calls reheat() exactly once: the pointer-up
\* that ends the drag of a node makes one call (none of them from the
\* canvas's pointer-up handler, so not two), and the pointer-moves of the
\* drag make none.
C24_ReheatOncePerDragRelease ==
    [][/\ (/\ lastOp' = "pointerUp"
           /\ button = 0
           /\ downTarget # NoId
           /\ downTarget \in isDragging) => reheats' = 1
       /\ lastOp' \in {"dragMove", "pointerMove"} => reheats' = 0]_vars

\* ----------------------------------------------------------------- spawn
\* C25: a pointer-down in the edge band of node A, a pointer-move to the
\* world point P and the pointer-up give one spawn completion with the
\* result {sourceNodeId: A.id, x: P.x, y: P.y}, that is one new node at P
\* with parent A; a further pointer-up gives no second completion.
C25_SpawnCompletesOnceAtPointer ==
    [][/\ (lastOp' = "pointerDown" /\ dragSpawn'.isDragging /\ ~dragSpawn.isDragging)
            => dragSpawn'.sourceNodeId = pointer.node
       /\ (lastOp' = "pointerUp" /\ dragSpawn.isDragging /\ gestureMove # <<>>)
            => /\ Len(nodes') = Len(nodes) + 1
               /\ nodes'[Len(nodes')].parentId = dragSpawn.sourceNodeId
               /\ nodes'[Len(nodes')].x = gestureMove[1]
               /\ nodes'[Len(nodes')].y = gestureMove[2]
               /\ ~dragSpawn'.isDragging
       /\ (lastOp' = "pointerUp" /\ ~dragSpawn.isDragging)
            => nodes' = nodes /\ edges' = edges]_vars

\* C26: every completed spawn gesture adds exactly one node and one edge to
\* the store: the node has status seed, parentId the source node id and the
\* result point (dragSpawn.currentX, currentY) as position; the edge has type
\* derive, sourceId the source node id and targetId the new node's id; and
\* reheat() is called.  This holds wherever the pointer is released.
C26_SpawnAddsNodeAndEdge ==
    [][(lastOp' = "pointerUp" /\ dragSpawn.isDragging)
          => /\ Len(nodes') = Len(nodes) + 1
             /\ SubSeq(nodes', 1, Len(nodes)) = nodes
             /\ nodes'[Len(nodes')].id \notin NodeIdSet(nodes)
             /\ nodes'[Len(nodes')].status = "seed"
             /\ nodes'[Len(nodes')].parentId = dragSpawn.sourceNodeId
             /\ nodes'[Len(nodes')].x = dragSpawn.currentX
             /\ nodes'[Len(nodes')].y = dragSpawn.currentY
             /\ Len(edges') = Len(edges) + 1
             /\ SubSeq(edges', 1, Len(edges)) = edges
             /\ edges'[Len(edges')] = [sourceId |-> dragSpawn.sourceNodeId,
                                       targetId |-> nodes'[Len(nodes')].id,
                                       type |-> "derive"]
             /\ reheats' >= 1]_vars

\* a spawn was completed with the pointer over the source node, away from
\* where the gesture started
C26_Witness ==
    /\ lastOp = "pointerUp"
    /\ Len(nodes) = 2
    /\ Len(edges) = 1
    /\ reheats = 1
    /\ HitsNode(pointer.node, pointer.d)
    /\ nodes[2].x = MaxX
    /\ gestureMove = <<MaxX, 0>>

\* C27: a spawn gesture released with no pointer move between the press in
\* the edge band and the release is honoured: a node and an edge are created,
\* and the node is created at the release point (the pointer's world point).
C27_ZeroDistanceAtReleasePoint ==
    [][(lastOp' = "pointerUp" /\ dragSpawn.isDragging /\ gestureMove = <<>>)
          => /\ Len(nodes') = Len(nodes) + 1
             /\ Len(edges') = Len(edges) + 1
             /\ nodes'[Len(nodes')].x = PointerWorld[1]
             /\ nodes'[Len(nodes')].y = PointerWorld[2]]_vars

\* C27 as amended: the node is created at the gesture's start point, the
\* point of the source node's circle in the direction of the pointer.
C27_ZeroDistanceAtStartPoint ==
    [][(lastOp' = "pointerUp" /\ dragSpawn.isDragging /\ gestureMove = <<>>)
          => LET src == NodeById(nodes, dragSpawn.sourceNodeId)
             IN /\ Len(nodes') = Len(nodes) + 1
                /\ Len(edges') = Len(edges) + 1
                /\ pointer.node = dragSpawn.sourceNodeId
                /\ nodes'[Len(nodes')].x = src.x + src.radius
                /\ nodes'[Len(nodes')].y = src.y
                /\ nodes'[Len(nodes')].x = dragSpawn.startX
                /\ nodes'[Len(nodes')].y = dragSpawn.startY]_vars

\* a spawn was released without a move, the pointer off the source's circle
C27_Witness ==
    /\ lastOp = "pointerUp"
    /\ gestureMove = <<>>
    /\ Len(nodes) = 2
    /\ Len(edges) = 1
    /\ nodes[2].parentId = nodes[1].id
    /\ pointer.node = nodes[1].id
    /\ pointer.d # nodes[1].radius
    /\ nodes[2].x = nodes[1].x + nodes[1].radius

\* C28: while a spawn gesture is in progress a pointer move changes only
\* dragSpawn.currentX and dragSpawn.currentY: the node list with every node
\* position, the edge list and the other dragSpawn fields stay as they are.
C28_SpawnMoveFrame ==
    [][(lastOp' \in {"pointerMove", "dragMove"} /\ dragSpawn.isDragging)
          => /\ nodes' = nodes
             /\ edges' = edges
             /\ dragSpawn'.isDragging = dragSpawn.isDragging
             /\ dragSpawn'.sourceNodeId = dragSpawn.sourceNodeId
             /\ dragSpawn'.startX = dragSpawn.startX
             /\ dragSpawn'.startY = dragSpawn.startY]_vars

\* C29: after endDragSpawn returned a result, and after cancelDragSpawn, the
\* drag-spawn state is discarded: isDragging is false, sourceNodeId is null
\* and startX, startY, currentX and currentY are 0.
C29_SpawnStateDiscarded ==
    [][(\/ lastOp' = "endDragSpawn" /\ emitted' # <<>>
        \/ lastOp' = "cancelDragSpawn")
          => /\ ~dragSpawn'.isDragging
             /\ dragSpawn'.sourceNodeId = NoId
             /\ dragSpawn'.startX = 0
             /\ dragSpawn'.startY = 0
             /\ dragSpawn'.currentX = 0
             /\ dragSpawn'.currentY = 0]_vars

\* endDragSpawn returned the result of a gesture whose points were not 0
C29_Witness ==
    /\ lastOp = "endDragSpawn"
    /\ emitted # <<>>
    /\ emitted[1].x = MaxDragOffset
    /\ emitted[1].sourceNodeId = MaxNodes
    /\ ~dragSpawn.isDragging

\* no pan, no spawn and no node drag is in progress
NoGesture ==
    /\ ~isPanning
    /\ ~dragSpawn.isDragging
    /\ ~konvaDragging
    /\ downTarget \notin isDragging

C31_EdgeEndsExist ==
    \A i \in 1..Len(edges) :
        /\ edges[i].sourceId \in NodeIdSet(nodes)
        /\ edges[i].targetId \in NodeIdSet(nodes)

\* the indices of the members of seq that Keep accepts, and the k-th of them
KeptIndices(seq, Keep(_)) == {i \in DOMAIN seq : Keep(seq[i])}
KthKept(seq, Keep(_), k) ==
    CHOOSE i \in KeptIndices(seq, Keep) :
        Cardinality({j \in KeptIndices(seq, Keep) : j <= i}) = k

\* C32: removeNode(id) removes the node with that id and every edge whose
\* sourceId or targetId is id, sets selectedNodeId to null when it was id,
\* and leaves every other node and edge (in their order) and a different
\* selectedNodeId unchanged.
C32_RemoveNodeFrame ==
    \A id \in Ids :
        LET ns == removeNodeNodes(nodes, id)
            es == removeNodeEdges(edges, id)
            sel == removeNodeSelected(selectedNodeId, id)
            OtherNode(n) == n.id # id
            OtherEdge(e) == e.sourceId # id /\ e.targetId # id
        IN /\ Len(ns) = Cardinality(KeptIndices(nodes, OtherNode))
           /\ \A k \in 1..Len(ns) : ns[k] = nodes[KthKept(nodes, OtherNode, k)]
           /\ Len(es) = Cardinality(KeptIndices(edges, OtherEdge))
           /\ \A k \in 1..Len(es) : es[k] = edges[KthKept(edges, OtherEdge, k)]
           /\ selectedNodeId = id => sel = NoId
           /\ selectedNodeId # id => sel = selectedNodeId

\* removeNode took a node away with an edge ending at it, another node
\* staying selected with an edge of its own
C32_Witness ==
    /\ lastOp = "removeNode"
    /\ Len(nodes) = 1
    /\ nextId = 3
    /\ selectedNodeId = nodes[1].id
    /\ Len(edges) = 1
    /\ edges[1].sourceId = nodes[1].id
    /\ edges[1].targetId = nodes[1].id

\* C33: in every reachable state the hook's isRunningRef is true exactly
\* when the simulation's timer is scheduling ticks, also after the simulation
\* has stopped by itself because alpha fell below alphaMin.
C33_RunningRefAgrees ==
    isRunningRef <=> (simulationRef /\ timerOn)

\* C34: after every run of the simulation effect (enabled = true) the keys
\* of the shadow map are the ids of the store's nodes and the simulation's
\* node array holds exactly those entries, once each; so whenever a handler
\* can run, setNodePosition(id, x, y) takes effect for every node of the
\* store.
C34_ShadowKeysAreNodeIds ==
    /\ [][lastOp' = "effect" =>
             /\ simulationRef'
             /\ nodesRef' = NodeIdSet(nodes')
             /\ nodesRef' \subseteq DOMAIN physHeap'
             /\ Range(simNodes') = nodesRef'
             /\ Len(simNodes') = Cardinality(nodesRef')]_vars
    /\ [](~renderPending =>
             \A id \in NodeIdSet(nodes), x \in XCoord, y \in YCoord :
                 LET after == SetNodePositionEngine(Engine, id, x, y).physHeap[id]
                 IN after.x = x /\ after.y = y /\ after.vx = 0 /\ after.vy = 0)

\* the effect has run after a node was removed from a store of two nodes
C34_Witness ==
    /\ lastOp = "effect"
    /\ Len(nodes) = 1
    /\ nextId = MaxNodes + 1
    /\ nodesRef = NodeIdSet(nodes)
    /\ Cardinality(DOMAIN physHeap) >= 1

C36_SpawnHasSource ==
    /\ [](dragSpawn.isDragging <=> dragSpawn.sourceNodeId # NoId)
    /\ [][/\ ((~dragSpawn.isDragging /\ dragSpawn'.isDragging)
                 => (lastOp' = "pointerDown" /\ dragSpawn'.sourceNodeId = pointer.node))
          /\ ((dragSpawn.isDragging /\ dragSpawn'.isDragging)
                 => dragSpawn'.sourceNodeId = dragSpawn.sourceNodeId)]_vars

\* a spawn gesture is in progress and its current point has left its start
C36_Witness ==
    /\ lastOp = "pointerMove"
    /\ dragSpawn.isDragging
    /\ dragSpawn.sourceNodeId \in NodeIdSet(nodes)
    /\ dragSpawn.currentX # dragSpawn.startX
    /\ button = 0

\* C37: in every state reached through the user interface (node clicks,
\* drag starts, canvas clicks, the Toolbar's delete, spawn) selectedNodeId is
\* null or the id of a node of the store.
C37_SelectionExists ==
    selectedNodeId = NoId \/ selectedNodeId \in NodeIdSet(nodes)

\* the selected node was deleted while another node stays in the store
C37_Witness ==
    /\ lastOp = "delete"
    /\ selectedNodeId = NoId
    /\ Len(nodes) = 1
    /\ nextId = MaxNodes + 1

\* C38: a zoom whose requested scale is clamped to the current scale (a
\* factor above 1 at scale 5, a factor below 1 at scale 0.1) leaves the
\* camera unchanged, scale and both offsets, for every pivot.
C38_ClampedZoomKeepsCamera ==
    \A factor \in ZoomFactors, cx \in PivotsX, cy \in PivotsY :
        (\/ camera.scale = MaxScale /\ RLess(RInt(1), factor)
         \/ camera.scale = MinScale /\ RLess(factor, RInt(1)))
            => zoom(camera, factor, cx, cy) = camera

\* a zoom has left the camera at the lower bound with both offsets moved
\* off zero
C38_Witness ==
    /\ lastOp = "zoom"
    /\ camera.scale = MinScale
    /\ camera.offsetX # RInt(0)
    /\ camera.offsetY # RInt(0)
    /\ \E factor \in ZoomFactors : RLess(factor, RInt(1))


====
